---- MODULE Spec2Model ----
(***************************************************************************)
(* OpenGateway POC daemon (scripts/poc-node.js): the peer registry, the    *)
(* per-connection NDJSON line reader and the inference dispatcher with its *)
(* backend fallback.                                                       *)
(*                                                                         *)
(* Text is modelled as a sequence of tokens.  On the wire a token is       *)
(* either the newline or a maximal piece of text that holds no newline;    *)
(* JSON.parse is a table from line texts to message objects, and a line    *)
(* made of several pieces is not valid JSON.                               *)
(*                                                                         *)
(* One step is one callback of the event loop together with the            *)
(* microtasks it leaves behind.  A peer record keeps peer_id, node_name    *)
(* and clusters; its connected_at and last_seen_at stamps are left out.    *)
(***************************************************************************)
EXTENDS Integers, Sequences, FiniteSets, TLC

\* ------------------------------------------------------------------ bounds
MaxTokens == 4     \* tokens received during one run, over all sockets

\* --------------------------------------------------------------- constants
Null == "null"                     \* null / undefined / absent field
NL == "\n"
NODE_NAME == "node"
CLUSTER_IDS == <<"gatewayai-poc">>
OLLAMA_MODEL == "llama3.2:1b"
EchoMarker == "[echo] "
ErrorMarker == "[error] "

\* The sockets of one run, in the order they are accepted: enough for two
\* peers, and for one peer connected twice.
Conns == {1, 2}
Backends == {"auto", "ollama", "echo"}
SupportedLists == {<<"SmolLM-360M">>}

\* Transport metadata handed to the 'connection' event: the remote public
\* key (Null when the transport gives none) and the decoded topic hints.
\* A topic buffer is its text followed by the zero bytes padding it.
NUL == "\\0"
Infos ==
  { [publicKey |-> "pk1", topics |-> << <<"cB", NUL>> >>],
    [publicKey |-> Null, topics |-> <<>>] }

\* Line texts a peer may send, and what JSON.parse makes of each.
HelloText == "{hello}"
Req1Text == "{req r1}"
Req2Text == "{req r2}"
ReqNoPromptText == "{req r1 no prompt}"
GarbageText == "garbage"
ReqNoIdText == "{req no id}"
UnknownTypeText == "{ping r1}"
ResponseText == "{resp r1}"

Texts == {HelloText, Req1Text, Req2Text, ReqNoPromptText, GarbageText}
Alphabet == Texts \cup {NL}

Unparsable == [type |-> "unparsable"]

JSONparse(line) ==
  IF Len(line) # 1 THEN Unparsable
  ELSE CASE line[1] = HelloText ->
              [type |-> "peer_hello", node_name |-> "alice",
               clusters_is_array |-> TRUE, clusters |-> << <<"cA">> >>]
         [] line[1] = Req1Text ->
              [type |-> "inference_request", request_id |-> "r1",
               prompt |-> "2+2?", model |-> Null]
         [] line[1] = Req2Text ->
              [type |-> "inference_request", request_id |-> "r2",
               prompt |-> "hi", model |-> "SmolLM-360M"]
         [] line[1] = ReqNoPromptText ->
              [type |-> "inference_request", request_id |-> "r1",
               prompt |-> Null, model |-> Null]
         [] line[1] = ReqNoIdText ->
              [type |-> "inference_request", request_id |-> Null,
               prompt |-> "2+2?", model |-> Null]
         [] line[1] = UnknownTypeText ->
              [type |-> "ping", request_id |-> "r1", prompt |-> "2+2?",
               model |-> Null]
         [] line[1] = ResponseText ->
              [type |-> "inference_response", request_id |-> "r1",
               prompt |-> Null, model |-> Null]
         [] OTHER -> Unparsable

\* Replies of the external inference service to one POST /api/generate.
Replies ==
  { [kind |-> "timeout", status |-> 0, body |-> "none"],
    [kind |-> "response", status |-> 200, body |-> "good"],
    [kind |-> "response", status |-> 500, body |-> "good"],
    [kind |-> "response", status |-> 200, body |-> "notjson"],
    [kind |-> "response", status |-> 200, body |-> "noresponse"] }

\* The text the service generates for a prompt.
Generated(prompt) == <<"answer to ", prompt>>

NoReply == [kind |-> "none", status |-> 0, body |-> "none"]

\* ---------------------------------------------------------------- state
VARIABLES
  backend,     \* POC_INFERENCE_BACKEND
  supported,   \* SUPPORTED_MODELS
  connState,   \* per socket: "idle" (not yet accepted), "open", "closed"
  connPeer,    \* per socket: the peerId setupConnection computed
  buf,         \* per socket: the handler's buf, the unterminated tail
  unread,      \* per socket: what arrived and was not yet handed to the
               \* 'data' listener (the stream's own buffer while not flowing)
  pending,     \* per socket: the requests whose remote call has not settled,
               \* in dispatch order (each a closure over msg and socket)
  peers,       \* the peers Map
  peersFile,   \* the peers array last written to peers.json
  ntok,        \* tokens received so far
  \* history variables
  tail,        \* per socket: tokens received since the last newline
  ev           \* what the last event did: see Event

vars == <<backend, supported, connState, connPeer, buf, unread, pending,
          peers, peersFile, ntok, tail, ev>>

\* main() of the daemon: the topic joins and the shutdown.
VARIABLES
  mainPc,      \* "start", "awaiting" (in the flushed() loop), "ready"
               \* (handlers registered), "shutting", "exited"
  njoins,      \* CLUSTER_IDS.length
  awaitIdx,    \* the discovery whose flushed() the loop awaits
  joined,      \* per topic: "none", "joined", "released" (destroy() done),
               \* "lost" (the process ended while it was joined)
  flush,       \* per topic: the flushed() promise: "none", "pending",
               \* "stalled", "flushed", "failed"
  destroyP,    \* per topic: the destroy() promise: "none", "pending",
               \* "done", "failed"
  signal,      \* the termination signal received: "none", "SIGINT", "SIGTERM"
  exitCode     \* "none", "0", "1", "killed" (default action of the signal)

mainVars == <<mainPc, njoins, awaitIdx, joined, flush, destroyP, signal,
              exitCode>>

\* resolveClusterIds(): what it reads and what it returns.
VARIABLES
  environment, \* POC_CLUSTER_IDS, POC_CLUSTER_ID, config.json, state.json
  resolved     \* [done, ids]: whether resolveClusterIds() was called, and
               \* the list it returned

resolveVars == <<environment, resolved>>

\* The rendezvous topic of one cluster identifier, as each program derives it.
VARIABLES
  clusterId,   \* the identifier, as its UTF-8 bytes
  daemonTopic, \* topicForCluster(clusterId) of the daemon, <<>> before the call
  clientTopic  \* the topic of the Request Client, <<>> before it is computed

topicVars == <<clusterId, daemonTopic, clientTopic>>

\* The Request Client (send-prompt.js).
VARIABLES
  clientPc,    \* "start", "waiting" (joined, awaiting done), "exited"
  clientExit,  \* the exit code: "none", "0", "1"
  timer,       \* the 30 s timeout: "none", "armed", "cleared", "fired"
  done,        \* the done promise: "pending", "resolved", "rejected"
  swarmState,  \* "idle", "joined", "destroying" (destroy() called and not
               \* settled), "destroyed", "destroyFailed"
  cconn,       \* per socket: "idle", "open", "closed"
  cbuf,        \* per socket: the handler's buf
  cwritten,    \* per socket: the messages the client wrote on it, in order
  printed,     \* how many responses console.log printed
  ctok,        \* tokens received so far
  \* history variables
  ctail,       \* per socket: tokens received since the last newline
  cmatch,      \* a complete line holding the awaited response was received
  cev          \* what the last event did: see ClientEvent

clientVars == <<clientPc, clientExit, timer, done, swarmState, cconn, cbuf,
                cwritten, printed, ctok, ctail, cmatch, cev>>

\* The clock the registry stamps its records with.
VARIABLES
  now          \* what new Date() returns

registryVars == <<now>>

\* The control commands (cli.js) and state.json.
VARIABLES
  stateFile,   \* state.json: see FileJson
  proc,        \* per command process: where it stands, see IdleProc
  running,     \* the pids of the daemons that run
  spawned,     \* how many daemons were spawned: the last pid handed out
  ncmds,       \* commands started so far
  \* history variables
  effects,     \* per identifier: "connected" once a connect of it has
               \* completed, "void" once a disconnect of it was started
  cliEv        \* what the last step did: see CliEvent

cliVars == <<stateFile, proc, running, spawned, ncmds, effects, cliEv>>

\* The resource profile and the tiers it is eligible for.
VARIABLES
  resources,   \* resources.json: the profile cmdGauge wrote, or NotGauged
  eligible,    \* what the last cmdEligible printed: see Listing
  earlier      \* what the cmdEligible before that one printed

tierVars == <<resources, eligible, earlier>>

\* inferPrompt's choice of the model.
VARIABLES
  requested,       \* msg.model: a name, "" or Null (no model field)
  supportedModels, \* SUPPORTED_MODELS of the node
  selection        \* [done, selected, chosenModel]: what inferPrompt made
                   \* of them

modelVars == <<requested, supportedModels, selection>>

\* A second cluster identifier and its topic.
VARIABLES
  otherId,     \* the identifier, as its UTF-8 bytes
  otherTopic   \* topicForCluster(otherId), <<>> before the call

keyVars == <<otherId, otherTopic>>

\* The state in which a part of the program is not running.
DaemonIdle ==
  /\ backend = "auto"
  /\ supported = <<>>
  /\ connState = [c \in Conns |-> "idle"]
  /\ connPeer = [c \in Conns |-> "?"]
  /\ buf = [c \in Conns |-> <<>>]
  /\ unread = [c \in Conns |-> <<>>]
  /\ pending = [c \in Conns |-> <<>>]
  /\ peers = <<>>
  /\ peersFile = <<>>
  /\ ntok = 0
  /\ tail = [c \in Conns |-> <<>>]
  /\ ev = [kind |-> "none"]

\* JSON.parse(fs.readFileSync(...)) throws: file absent, unreadable, not JSON.
Throws == [kind |-> "throws"]

ResolveIdle ==
  /\ environment = [list |-> <<>>, single |-> <<>>, config |-> Throws,
                    state |-> Throws]
  /\ resolved = [done |-> FALSE, ids |-> <<>>]

TopicIdle ==
  /\ clusterId = <<>>
  /\ daemonTopic = <<>>
  /\ clientTopic = <<>>

ClientIdle ==
  /\ clientPc = "none"
  /\ clientExit = "none"
  /\ timer = "none"
  /\ done = "pending"
  /\ swarmState = "idle"
  /\ cconn = [c \in Conns |-> "idle"]
  /\ cbuf = [c \in Conns |-> <<>>]
  /\ cwritten = [c \in Conns |-> <<>>]
  /\ printed = 0
  /\ ctok = 0
  /\ ctail = [c \in Conns |-> <<>>]
  /\ cmatch = FALSE
  /\ cev = [kind |-> "none"]

MainIdle ==
  /\ mainPc = "none"
  /\ njoins = 0
  /\ awaitIdx = 0
  /\ joined = <<>>
  /\ flush = <<>>
  /\ destroyP = <<>>
  /\ signal = "none"
  /\ exitCode = "none"

RegistryIdle == now = 0

Procs == {1, 2}

\* The identifiers connect and disconnect are called with.
ClusterArgs == {"cA", "cB"}

\* What state.json holds: nothing (no such file), a JSON document with the
\* membership list (has_clusters: whether the document has a clusters
\* array at all) and the daemon's pid (0 for null), no bytes at all (the
\* file was opened for writing and nothing was written yet), or bytes that
\* are no JSON document.
FileAbsent ==
  [kind |-> "absent", has_clusters |-> FALSE, clusters |-> <<>>, nodePid |-> 0]
FileEmpty ==
  [kind |-> "empty", has_clusters |-> FALSE, clusters |-> <<>>, nodePid |-> 0]
FileGarbage ==
  [kind |-> "garbage", has_clusters |-> FALSE, clusters |-> <<>>,
   nodePid |-> 0]
FileJson(obj) ==
  [kind |-> "json", has_clusters |-> obj.has_clusters,
   clusters |-> obj.clusters, nodePid |-> obj.nodePid]

\* The document {}: JSON, and no state.
FileNoClusters ==
  FileJson([has_clusters |-> FALSE, clusters |-> <<>>, nodePid |-> 0])

\* { clusters: [], nodePid: null }
DefaultState == [has_clusters |-> TRUE, clusters |-> <<>>, nodePid |-> 0]

NoUpdate == [fields |-> {}, clusters |-> <<>>, nodePid |-> 0]

\* A process that runs no command.
IdleProc ==
  [pc |-> "idle", cmd |-> "none", arg |-> "", update |-> NoUpdate,
   s |-> DefaultState, then |-> "exit", child |-> 0, env |-> ""]

CliIdle ==
  /\ stateFile = FileAbsent
  /\ proc = [p \in Procs |-> IdleProc]
  /\ running = {}
  /\ spawned = 0
  /\ ncmds = 0
  /\ effects = [id \in ClusterArgs |-> "none"]
  /\ cliEv = [kind |-> "none"]

NotGauged == [gauged |-> FALSE, cpu_cores |-> 0, ram_gb |-> 0,
              gpu_vram_gb |-> 0, disk_gb |-> 0]
NoListing == [done |-> FALSE, profile |-> NotGauged, ids |-> <<>>,
              said |-> "nothing"]

TierIdle ==
  /\ resources = NotGauged
  /\ eligible = NoListing
  /\ earlier = NoListing

NoSelection == [done |-> FALSE, selected |-> "", chosenModel |-> ""]

ModelIdle ==
  /\ requested = Null
  /\ supportedModels = <<>>
  /\ selection = NoSelection

KeyIdle ==
  /\ otherId = <<>>
  /\ otherTopic = <<>>

allVars ==
  <<vars, mainVars, resolveVars, topicVars, clientVars, registryVars,
    cliVars, tierVars, modelVars, keyVars>>

\* What each part of the program leaves alone, and where that stands.
others == <<mainVars, resolveVars, topicVars, clientVars, registryVars,
           cliVars, tierVars, modelVars, keyVars>>
OthersIdle ==
  /\ MainIdle /\ ResolveIdle /\ TopicIdle /\ ClientIdle /\ RegistryIdle
  /\ CliIdle /\ TierIdle /\ ModelIdle /\ KeyIdle

mainRest == <<backend, supported, connState, connPeer, buf, unread, pending,
              ntok, tail, ev, resolveVars, topicVars, clientVars,
              registryVars, cliVars, tierVars, modelVars, keyVars>>
MainOthersIdle ==
  /\ ResolveIdle /\ TopicIdle /\ ClientIdle /\ RegistryIdle
  /\ CliIdle /\ TierIdle /\ ModelIdle /\ KeyIdle

resolveRest == <<vars, mainVars, topicVars, clientVars, registryVars,
                cliVars, tierVars, modelVars, keyVars>>
ResolveOthersIdle ==
  /\ DaemonIdle /\ MainIdle /\ TopicIdle /\ ClientIdle /\ RegistryIdle
  /\ CliIdle /\ TierIdle /\ ModelIdle /\ KeyIdle

topicRest == <<vars, mainVars, resolveVars, clientVars, registryVars,
              cliVars, tierVars, modelVars, keyVars>>
TopicOthersIdle ==
  /\ DaemonIdle /\ MainIdle /\ ResolveIdle /\ ClientIdle /\ RegistryIdle
  /\ CliIdle /\ TierIdle /\ ModelIdle /\ KeyIdle

clientRest == <<vars, mainVars, resolveVars, topicVars, registryVars,
               cliVars, tierVars, modelVars, keyVars>>
ClientOthersIdle ==
  /\ DaemonIdle /\ MainIdle /\ ResolveIdle /\ TopicIdle /\ RegistryIdle
  /\ CliIdle /\ TierIdle /\ ModelIdle /\ KeyIdle

\* The parts above: what the control commands, the tier listing and the
\* model choice leave alone.
daemonParts ==
  <<vars, mainVars, resolveVars, topicVars, clientVars, registryVars>>
DaemonPartsIdle ==
  /\ DaemonIdle /\ MainIdle /\ ResolveIdle /\ TopicIdle /\ ClientIdle
  /\ RegistryIdle

cliRest == <<daemonParts, tierVars, modelVars, keyVars>>
CliOthersIdle == DaemonPartsIdle /\ TierIdle /\ ModelIdle /\ KeyIdle

tierRest == <<daemonParts, cliVars, modelVars, keyVars>>
TierOthersIdle == DaemonPartsIdle /\ CliIdle /\ ModelIdle /\ KeyIdle

modelRest == <<daemonParts, cliVars, tierVars, keyVars>>
ModelOthersIdle == DaemonPartsIdle /\ CliIdle /\ TierIdle /\ KeyIdle

keyRest == <<vars, mainVars, resolveVars, clientVars, registryVars, cliVars,
             tierVars, modelVars, clientTopic>>
KeyOthersIdle ==
  /\ DaemonIdle /\ MainIdle /\ ResolveIdle /\ ClientIdle /\ RegistryIdle
  /\ CliIdle /\ TierIdle /\ ModelIdle

\* ------------------------------------------------------------ pure helpers
RECURSIVE Dedup(_)
\* Array.from(new Set(arr)): first occurrences, in order.
Dedup(s) ==
  IF s = <<>> THEN <<>>
  ELSE LET front == Dedup(SubSeq(s, 1, Len(s) - 1))
           last == s[Len(s)]
       IN IF \E i \in 1..Len(front) : front[i] = last THEN front
          ELSE Append(front, last)

RECURSIVE StripNul(_)
StripNul(b) ==
  IF b # <<>> /\ b[Len(b)] = NUL THEN StripNul(SubSeq(b, 1, Len(b) - 1)) ELSE b

\* topic.toString('utf8').replace(/\0+$/g, '').trim()
decodeTopic(topic) ==
  LET t == StripNul(topic) IN IF t = <<>> THEN "" ELSE t[1]

RECURSIVE DecodeAll(_)
DecodeAll(ts) ==
  IF ts = <<>> THEN <<>>
  ELSE LET id == decodeTopic(ts[1])
       IN (IF id # "" THEN <<id>> ELSE <<>>) \o DecodeAll(Tail(ts))

extractPeerClusters(info) == Dedup(DecodeAll(info.topics))

peerIdOf(info) == IF info.publicKey # Null THEN info.publicKey ELSE "?"

RECURSIVE trimStart(_)
trimStart(str) ==
  IF str # <<>> /\ str[1] = " " THEN trimStart(Tail(str)) ELSE str

RECURSIVE trimEnd(_)
trimEnd(str) ==
  IF str # <<>> /\ str[Len(str)] = " "
    THEN trimEnd(SubSeq(str, 1, Len(str) - 1))
  ELSE str

\* String.prototype.trim().
trim(str) == trimEnd(trimStart(str))

\* Map.set / Map.delete on the peers map.
MapSet(m, k, v) == [x \in (DOMAIN m) \cup {k} |-> IF x = k THEN v ELSE m[x]]
MapDelete(m, k) == [x \in (DOMAIN m) \ {k} |-> m[x]]

\* A writePeersFile() that leaves peers.json as it was.
writePeersFile_Skipped(m) == <<>>

\* writePeersFile(): peers.json gets every record of the peers map, the
\* file's old content is replaced.  The records are kept under their
\* peer_id, which each record holds.
writePeersFile(m) == [k \in DOMAIN m |-> m[k]]

RECURSIVE SplitFrom(_, _, _, _)
SplitFrom(s, i, cur, acc) ==
  IF i > Len(s) THEN Append(acc, cur)
  ELSE IF s[i] = NL THEN SplitFrom(s, i + 1, <<>>, Append(acc, cur))
  ELSE SplitFrom(s, i + 1, Append(cur, s[i]), acc)

\* buf.split('\n')
Split(s) == SplitFrom(s, 1, <<>>, <<>>)

\* The chunks of n tokens a peer that writes whole lines can cause: a text is
\* followed by its newline, wherever the transport cuts the stream.
RECURSIVE Framed(_, _)
Framed(n, afterText) ==
  IF n = 0 THEN {<<>>}
  ELSE { <<NL>> \o r : r \in Framed(n - 1, FALSE) }
       \cup (IF afterText THEN {}
             ELSE { <<x>> \o r : x \in Texts, r \in Framed(n - 1, TRUE) })

ChunkTable ==
  [room \in 0..MaxTokens, afterText \in BOOLEAN |->
     UNION { Framed(n, afterText) : n \in 1..room }]

Chunks(room, afterText) == ChunkTable[room, afterText]

\* ------------------------------------------------------- inference backend
MODEL_RUNTIME_MAP(selected) ==
  IF selected = "SmolLM-360M" THEN "llama3.2:1b" ELSE ""

\* A choice that also replaces the default model when the list lacks it.
selectedModel_NoDefault(model, sup) ==
  LET s0 == IF model # Null THEN model ELSE ""
      s1 == IF s0 = "" /\ Len(sup) > 0 THEN sup[1] ELSE s0
  IN IF /\ Len(sup) > 0
        /\ s1 # ""
        /\ ~(\E i \in 1..Len(sup) : sup[i] = s1)
       THEN sup[1] ELSE s1

\* selected, after the two if statements of inferPrompt.
selectedModel(model, sup) ==
  LET s0 == IF model # Null THEN model ELSE ""
      s1 == IF s0 = "" /\ Len(sup) > 0 THEN sup[1] ELSE s0
  IN IF /\ Len(sup) > 0
        /\ s1 # ""
        /\ ~(\E i \in 1..Len(sup) : sup[i] = s1)
        /\ s1 # OLLAMA_MODEL
       THEN sup[1] ELSE s1

\* The model name inferPrompt hands to the remote service.
chosenModel(model, sup) ==
  LET s2 == selectedModel(model, sup)
  IN IF MODEL_RUNTIME_MAP(s2) # "" THEN MODEL_RUNTIME_MAP(s2)
     ELSE IF s2 # "" THEN s2
     ELSE OLLAMA_MODEL

\* postJson: the promise resolves with the parsed body or rejects.
postJson(call, reply) ==
  IF reply.kind = "timeout"
    THEN [ok |-> FALSE, message |-> <<"request timeout">>]
  ELSE IF reply.status < 200 \/ reply.status >= 300
    THEN [ok |-> FALSE, message |-> <<"HTTP 500: ", reply.body>>]
  ELSE IF reply.body = "notjson"
    THEN [ok |-> FALSE, message |-> <<"Unexpected token">>]
  ELSE IF reply.body = "noresponse"
    THEN [ok |-> TRUE, value |-> [has_response |-> FALSE, response |-> <<>>]]
  ELSE [ok |-> TRUE,
        value |-> [has_response |-> TRUE, response |-> Generated(call.prompt)]]

\* A request issued without the timeout option: nothing ends the wait.
requestTimeout_None(call) == FALSE

\* timeout: timeoutMs in the request options and the 'timeout' listener that
\* destroys the request: whether the wait for a reply to call is bounded.
requestTimeout(call) == TRUE

\* The reply postJson sees when the timer expires before the service answers.
Expired == [kind |-> "timeout", status |-> 0, body |-> "none"]

inferWithOllama(prompt, model, reply) ==
  LET out == postJson([model |-> model, prompt |-> prompt], reply)
  IN IF ~out.ok THEN out
     ELSE IF ~out.value.has_response
       THEN [ok |-> FALSE, message |-> <<"Ollama returned no response">>]
     ELSE [ok |-> TRUE, text |-> out.value.response, backend |-> "ollama"]

EchoResult(prompt) ==
  [ok |-> TRUE, text |-> <<EchoMarker, prompt>>, backend |-> "echo"]

callsRemote_Always(mode) == TRUE

\* Whether inferPrompt reaches the remote service in this mode.
callsRemote(mode) == mode # "echo"

inferPrompt_NoFallback(mode, prompt, model, sup, reply) ==
  IF mode = "echo" THEN EchoResult(prompt)
  ELSE inferWithOllama(prompt, chosenModel(model, sup), reply)

inferPrompt_AlwaysFallback(mode, prompt, model, sup, reply) ==
  IF mode = "echo" THEN EchoResult(prompt)
  ELSE LET r == inferWithOllama(prompt, chosenModel(model, sup), reply)
       IN IF r.ok THEN r ELSE EchoResult(prompt)

\* inferPrompt once the remote call, if one was made, has settled with reply.
inferPrompt(mode, prompt, model, sup, reply) ==
  IF mode = "echo" THEN EchoResult(prompt)
  ELSE IF mode = "ollama"
    THEN inferWithOllama(prompt, chosenModel(model, sup), reply)
  ELSE LET r == inferWithOllama(prompt, chosenModel(model, sup), reply)
       IN IF r.ok THEN r ELSE EchoResult(prompt)

handleInferenceRequest_NoCatch(msg, res) ==
  IF res.ok
    THEN << [type |-> "inference_response", request_id |-> msg.request_id,
             response |-> res.text,
             model |-> IF msg.model # Null THEN msg.model ELSE OLLAMA_MODEL] >>
    ELSE <<>>

\* requestId kept in one variable shared by all requests: the latest dispatched.
handleInferenceRequest_SharedId(msg, res) ==
  LET cs == { c \in Conns : pending[c] # <<>> }
      c == CHOOSE x \in cs : \A y \in cs : y <= x
      id == IF cs = {} THEN msg.request_id
            ELSE pending[c][Len(pending[c])].msg.request_id
  IN << [type |-> "inference_response", request_id |-> id,
         response |-> IF res.ok THEN res.text ELSE <<ErrorMarker>> \o res.message,
         model |-> Null] >>

\* The objects handleInferenceRequest sends once inferPrompt has settled.
handleInferenceRequest(msg, res) ==
  IF res.ok
    THEN << [type |-> "inference_response", request_id |-> msg.request_id,
             response |-> res.text,
             model |-> IF msg.model # Null THEN msg.model ELSE OLLAMA_MODEL] >>
    ELSE << [type |-> "inference_response", request_id |-> msg.request_id,
             response |-> <<ErrorMarker>> \o res.message,
             model |-> Null] >>

Dropped == [type |-> "dropped"]
NoMsg == [type |-> "none"]

\* The record of one event: the socket it is about, the messages its handler
\* processed (handshakes applied, requests dispatched) in order, the remote
\* calls it issued, the send() calls it made, the reply that settled a remote
\* call with the place that call had among the pending ones, the lines the
\* stream completed according to RefFeed, and (for 'data') the unterminated
\* fragment the socket held when the chunk arrived.
Event(kind, c, handled, calls, sent, reply, nth, lines) ==
  [kind |-> kind, conn |-> c, handled |-> handled, calls |-> calls,
   sent |-> sent, reply |-> reply, nth |-> nth, lines |-> lines,
   held |-> <<>>]

\* Every inference_request is dispatched, whatever fields it lacks.
accepts_AnyRequest(msg) == msg.type = "inference_request"

accepts(msg) ==
  msg.type = "inference_request" /\ msg.request_id # Null /\ msg.prompt # Null

\* send(socket, obj): the write reaches the peer only while the socket is
\* open.  from is history: the request the object answers.
send(out, sock, obj, origin) ==
  Append(out, [sock |-> sock, msg |-> obj, from |-> origin,
               live |-> connState[sock] = "open"])

\* ------------------------------------------------------ the 'data' handler
onParseError_Abort(st) == [st EXCEPT !.abort = TRUE]

\* catch (_) {} around one line.
onParseError(st) == st

\* String(c).trim() of one announced cluster: the name that is left, ""
\* when the text is blank.
trimmedName(raw) == LET t == trim(raw) IN IF t = <<>> THEN "" ELSE t[1]

RECURSIVE cleanClusters(_)
\* msg.clusters.map((c) => String(c).trim()).filter(Boolean)
cleanClusters(raw) ==
  IF raw = <<>> THEN <<>>
  ELSE LET id == trimmedName(raw[1])
       IN (IF id # "" THEN <<id>> ELSE <<>>) \o cleanClusters(Tail(raw))

\* A handshake that adds the announced clusters to the seeded ones.
announcedClusters_Added(msg, current) ==
  current.clusters \o (IF msg.clusters_is_array THEN cleanClusters(msg.clusters)
                       ELSE <<>>)

\* const announcedClusters = Array.isArray(msg.clusters) ? ... : current.clusters
announcedClusters(msg, current) ==
  IF msg.clusters_is_array THEN cleanClusters(msg.clusters)
  ELSE current.clusters

\* msg.node_name ? String(msg.node_name) : current.node_name
announcedName(msg, current) ==
  IF msg.node_name # Null /\ msg.node_name # "" THEN msg.node_name
  ELSE current.node_name

\* The peer_hello branch.
onHello(st, peerId, msg) ==
  LET current == IF peerId \in DOMAIN st.peers THEN st.peers[peerId]
                 ELSE [peer_id |-> peerId, node_name |-> "unknown",
                       clusters |-> <<>>]
      rec == [current EXCEPT
                !.node_name = announcedName(msg, current),
                !.clusters = Dedup(announcedClusters(msg, current))]
      p == MapSet(st.peers, peerId, rec)
  IN [st EXCEPT !.peers = p, !.file = writePeersFile(p),
                !.log = Append(st.log, msg)]

\* The inference_request branch: handleInferenceRequest is called.
onRequest(st, msg) == [st EXCEPT !.log = Append(st.log, msg)]

\* The body of the for loop for one line.
ProcessLine(st, peerId, line) ==
  IF line = <<>> THEN st
  ELSE LET msg == JSONparse(line)
       IN IF msg.type = "unparsable" THEN onParseError(st)
          ELSE IF msg.type = "peer_hello" THEN onHello(st, peerId, msg)
          ELSE IF accepts(msg) THEN onRequest(st, msg)
          ELSE st

RECURSIVE ProcessLines_Reversed(_, _, _)
ProcessLines_Reversed(st, peerId, lines) ==
  IF lines = <<>> \/ st.abort THEN st
  ELSE ProcessLines_Reversed(ProcessLine(st, peerId, lines[Len(lines)]), peerId,
                             SubSeq(lines, 1, Len(lines) - 1))

RECURSIVE ProcessLines(_, _, _)
ProcessLines(st, peerId, lines) ==
  IF lines = <<>> \/ st.abort THEN st
  ELSE ProcessLines(ProcessLine(st, peerId, lines[1]), peerId, Tail(lines))

\* Every piece is processed as it arrives, the unterminated one too.
completeLines_All(pieces) == pieces

\* lines = buf.split('\n'); buf = lines.pop() || ''
completeLines(pieces) == SubSeq(pieces, 1, Len(pieces) - 1)
pendingBuf(pieces) == pieces[Len(pieces)]

\* The stream is paused while a request of the socket is awaited.
flowing_PausedWhilePending(c) == pending[c] = <<>>

\* Whether the 'data' listener runs for a chunk arriving on socket c:
\* socket.on('data') sets the stream flowing and nothing pauses it.
flowing(c) == TRUE

\* A dispatched request: the closure of handleInferenceRequest(msg, socket).
Task(c, msg) == [conn |-> c, msg |-> msg]

\* socket kept in one variable shared by all handlers: the latest accepted.
socketOf_Latest(task) ==
  LET open == { c \in Conns : connState[c] = "open" }
  IN IF open = {} THEN task.conn ELSE CHOOSE x \in open : \A y \in open : y <= x

\* The socket a settled request answers on: the one its closure captured.
socketOf(task) == task.conn

\* The body inferWithOllama posts for a task.
CallOf(task) ==
  [model |-> chosenModel(task.msg.model, supported), prompt |-> task.msg.prompt]

RECURSIVE SendAll(_, _, _, _)
SendAll(out, sock, objs, origin) ==
  IF objs = <<>> THEN out
  ELSE SendAll(send(out, sock, objs[1], origin), sock, Tail(objs), origin)

\* The .then/.catch of one request running with the settled result.
Settle(out, task, reply) ==
  LET res == inferPrompt(backend, task.msg.prompt, task.msg.model, supported,
                         reply)
  IN SendAll(out, socketOf(task), handleInferenceRequest(task.msg, res), task)

RECURSIVE SettleAll(_, _)
SettleAll(out, tasks) ==
  IF tasks = <<>> THEN out
  ELSE SettleAll(Settle(out, tasks[1], NoReply), Tail(tasks))

IsRequest(m) == m.type = "inference_request"

RemoveAt(s, i) == SubSeq(s, 1, i - 1) \o SubSeq(s, i + 1, Len(s))

\* ------------------------------------------- reference reading of a stream
\* A line ends at its newline; a non-blank line is a handshake, an accepted
\* request, or dropped.
IsAccepted(m) ==
  /\ m.type = "inference_request"
  /\ ~(m.request_id = Null \/ m.prompt = Null)

Classify(line) ==
  LET m == JSONparse(line)
  IN IF m.type = "peer_hello" \/ IsAccepted(m) THEN m ELSE Dropped

RECURSIVE RefFeed(_, _)
RefFeed(r, chunk) ==
  IF chunk = <<>> THEN r
  ELSE IF chunk[1] = NL
    THEN RefFeed([tail |-> <<>>,
                  lines |-> IF r.tail = <<>> THEN r.lines
                            ELSE Append(r.lines, Classify(r.tail))],
                 Tail(chunk))
  ELSE RefFeed([r EXCEPT !.tail = Append(r.tail, chunk[1])], Tail(chunk))

\* ---------------------------------------------------------------- actions
Init ==
  /\ backend \in Backends
  /\ supported \in SupportedLists
  /\ connState = [c \in Conns |-> "idle"]
  /\ connPeer = [c \in Conns |-> "?"]
  /\ buf = [c \in Conns |-> <<>>]
  /\ unread = [c \in Conns |-> <<>>]
  /\ pending = [c \in Conns |-> <<>>]
  /\ peers = <<>>
  /\ peersFile = <<>>
  /\ ntok = 0
  /\ tail = [c \in Conns |-> <<>>]
  /\ ev = Event("init", 0, <<>>, <<>>, <<>>, NoReply, 0, <<>>)
  /\ OthersIdle

\* swarm.on('connection'): setupConnection(socket, info).
Connect(c, info) ==
  LET peerId == peerIdOf(info)
      rec == [peer_id |-> peerId, node_name |-> "unknown",
              clusters |-> extractPeerClusters(info)]
      hello == [type |-> "peer_hello", node_name |-> NODE_NAME,
                clusters |-> CLUSTER_IDS, supported_models |-> supported]
  IN /\ connState[c] = "idle"
     /\ \A d \in Conns : d < c => connState[d] # "idle"
     /\ connState' = [connState EXCEPT ![c] = "open"]
     /\ connPeer' = [connPeer EXCEPT ![c] = peerId]
     /\ peers' = MapSet(peers, peerId, rec)
     /\ peersFile' = writePeersFile(peers')
     /\ ev' = Event("connect", c, <<>>, <<>>,
                    << [sock |-> c, msg |-> hello, from |-> Task(c, NoMsg),
                        live |-> TRUE] >>,
                    NoReply, 0, <<>>)
     /\ UNCHANGED <<backend, supported, buf, unread, pending, ntok, tail>>
     /\ UNCHANGED others

\* socket.on('data'), with the microtasks it leaves behind.
Data(c, chunk) ==
  LET pieces == Split(buf[c] \o unread[c] \o chunk)
      st == ProcessLines([peers |-> peers, file |-> peersFile, log |-> <<>>,
                          abort |-> FALSE],
                         connPeer[c], completeLines(pieces))
      reqs == SelectSeq(st.log, IsRequest)
      tasks == [i \in 1..Len(reqs) |-> Task(c, reqs[i])]
      ref == RefFeed([tail |-> tail[c], lines |-> <<>>], chunk)
      remote == callsRemote(backend)
  IN /\ connState[c] = "open"
     /\ ntok' = ntok + Len(chunk)
     /\ tail' = [tail EXCEPT ![c] = ref.tail]
     /\ IF flowing(c)
          THEN /\ buf' = [buf EXCEPT ![c] = pendingBuf(pieces)]
               /\ unread' = [unread EXCEPT ![c] = <<>>]
               /\ peers' = st.peers
               /\ peersFile' = st.file
               /\ connState' = IF st.abort
                                 THEN [connState EXCEPT ![c] = "closed"]
                               ELSE connState
               /\ pending' = IF remote
                               THEN [pending EXCEPT ![c] = pending[c] \o tasks]
                             ELSE pending
               /\ ev' = [Event("data", c, st.log,
                               IF remote
                                 THEN [i \in 1..Len(tasks) |-> CallOf(tasks[i])]
                               ELSE <<>>,
                               IF remote THEN <<>> ELSE SettleAll(<<>>, tasks),
                               NoReply, 0, ref.lines)
                          EXCEPT !.held = tail[c]]
          ELSE /\ unread' = [unread EXCEPT ![c] = unread[c] \o chunk]
               /\ ev' = [Event("data", c, <<>>, <<>>, <<>>, NoReply, 0,
                               ref.lines)
                          EXCEPT !.held = tail[c]]
               /\ UNCHANGED <<buf, peers, peersFile, connState, pending>>
     /\ UNCHANGED <<backend, supported, connPeer>>
     /\ UNCHANGED others

\* The remote call of the i-th pending request of socket c settles; its
\* .then/.catch runs.
Complete(c, i, reply) ==
  /\ i \in 1..Len(pending[c])
  /\ reply.kind = "timeout" => requestTimeout(CallOf(pending[c][i]))
  /\ pending' = [pending EXCEPT ![c] = RemoveAt(pending[c], i)]
  /\ ev' = Event("settle", c, <<>>, <<>>, Settle(<<>>, pending[c][i], reply),
                 reply, i, <<>>)
  /\ UNCHANGED <<backend, supported, connState, connPeer, buf, unread, peers,
                 peersFile, ntok, tail>>
  /\ UNCHANGED others

\* socket.on('close').
Close(c) ==
  /\ connState[c] = "open"
  /\ connState' = [connState EXCEPT ![c] = "closed"]
  /\ peers' = MapDelete(peers, connPeer[c])
  /\ peersFile' = writePeersFile(peers')
  /\ ev' = Event("close", c, <<>>, <<>>, <<>>, NoReply, 0, <<>>)
  /\ UNCHANGED <<backend, supported, connPeer, buf, unread, pending, ntok,
                 tail>>
  /\ UNCHANGED others

Next ==
  \/ \E c \in Conns, info \in Infos : Connect(c, info)
  \/ \E c \in Conns :
       \E chunk \in Chunks(MaxTokens - ntok, tail[c] # <<>>) : Data(c, chunk)
  \/ \E c \in Conns, i \in 1..MaxTokens, reply \in Replies : Complete(c, i, reply)
  \/ \E c \in Conns : Close(c)

Spec == Init /\ [][Next]_vars

\* The timer of the oldest pending call of socket c expires.
Expire(c) == Complete(c, 1, Expired)

\* ------------------------------------------------------------ properties
LastN(q, n) == SubSeq(q, Len(q) - n + 1, Len(q))

\* The accepted requests among the lines the stream completed in the last
\* event, in stream order.
StreamRequests == SelectSeq(ev.lines, IsAccepted)

IsRecognized(m) == m.type = "peer_hello" \/ IsAccepted(m)

\* A remote call that failed: a timeout, a non-success status, a payload that
\* is not JSON or holds no response text.
RemoteFailed(reply) ==
  \/ reply.kind = "timeout"
  \/ reply.status < 200 \/ reply.status > 299
  \/ reply.body \in {"notjson", "noresponse"}

IsResponseFor(e, req) ==
  /\ e.msg.type = "inference_response"
  /\ e.msg.request_id = req.request_id

IsErrorText(text) == text # <<>> /\ text[1] = ErrorMarker

\* C1: every accepted request gets exactly one inference_response carrying its
\* request_id.  An event that accepts requests either answers each of them
\* once (echo) or leaves each of them pending once; an event that settles a
\* pending request writes exactly one response, for that request; no other
\* event writes a response.
C1_ExactlyOneResponse ==
  /\ ev.kind = "data" =>
       IF backend = "echo"
         THEN /\ Len(ev.sent) = Len(StreamRequests)
              /\ \A i \in 1..Len(StreamRequests) :
                   IsResponseFor(ev.sent[i], StreamRequests[i])
         ELSE /\ ev.sent = <<>>
              /\ Len(pending[ev.conn]) >= Len(StreamRequests)
              /\ \A i \in 1..Len(StreamRequests) :
                   LastN(pending[ev.conn], Len(StreamRequests))[i]
                     = Task(ev.conn, StreamRequests[i])
  /\ ev.kind = "settle" =>
       /\ Len(ev.sent) = 1
       /\ IsAccepted(ev.sent[1].from.msg)
       /\ IsResponseFor(ev.sent[1], ev.sent[1].from.msg)
  /\ ev.kind \in {"init", "connect", "close"} =>
       \A i \in 1..Len(ev.sent) : ev.sent[i].msg.type # "inference_response"

\* C1 witness: a request whose remote call failed in forced-remote mode has
\* just been answered.
C1_Witness ==
  /\ backend = "ollama" /\ ev.kind = "settle" /\ RemoteFailed(ev.reply)
  /\ Len(ev.sent) = 1 /\ ev.sent[1].msg.request_id = "r1"

\* C2: a response carries the request_id of the request it answers and is
\* computed from that request's prompt, whichever pending request settles
\* first.
C2_NoCrossMatch ==
  ev.kind = "settle" =>
    \A i \in 1..Len(ev.sent) :
      LET e == ev.sent[i]
          req == e.from.msg
      IN /\ e.msg.request_id = req.request_id
         /\ \/ e.msg.response = Generated(req.prompt)
            \/ e.msg.response = <<EchoMarker, req.prompt>>
            \/ IsErrorText(e.msg.response)

\* C2 witness: two requests with distinct ids were pending on one socket and
\* the one dispatched last has settled first.
C2_Witness ==
  /\ ev.kind = "settle" /\ ev.nth = 2
  /\ Len(pending[ev.conn]) = 1 /\ Len(ev.sent) = 1
  /\ pending[ev.conn][1].msg.request_id # ev.sent[1].msg.request_id
  /\ ev.sent[1].msg.response = Generated(ev.sent[1].from.msg.prompt)

\* C3: every response is written to the socket its request arrived on.
C3_SameConnection ==
  \A i \in 1..Len(ev.sent) :
    /\ ev.sent[i].sock = ev.sent[i].from.conn
    /\ ev.sent[i].sock = ev.conn

\* C3 witness: a request settles on one socket while a request with the same
\* request_id is pending on the other, open, socket.
C3_Witness ==
  /\ ev.kind = "settle" /\ Len(ev.sent) = 1
  /\ \E d \in Conns \ {ev.conn} :
       /\ connState[d] = "open" /\ connState[ev.conn] = "open"
       /\ \E j \in 1..Len(pending[d]) :
            pending[d][j].msg.request_id = ev.sent[1].msg.request_id

\* C4: a malformed line leaves the socket open and the requests after it
\* are read as if it had not been sent: each is answered once (echo) or
\* pending once, and the handler's buffer holds what the stream has not
\* terminated.
C4_MalformedTolerated ==
  (ev.kind = "data" /\ \E k \in 1..Len(ev.lines) : ev.lines[k] = Dropped) =>
    /\ connState[ev.conn] = "open"
    /\ buf[ev.conn] = tail[ev.conn]
    /\ SelectSeq(ev.handled, IsRequest) = StreamRequests
    /\ IF backend = "echo"
         THEN /\ Len(ev.sent) = Len(StreamRequests)
              /\ \A i \in 1..Len(StreamRequests) :
                   /\ IsResponseFor(ev.sent[i], StreamRequests[i])
                   /\ ev.sent[i].live
         ELSE /\ Len(ev.calls) = Len(StreamRequests)
              /\ Len(pending[ev.conn]) >= Len(StreamRequests)

\* C4 witness: one chunk held a malformed line and then a request, and the
\* request has been answered.
C4_Witness ==
  /\ ev.kind = "data" /\ backend = "echo"
  /\ Len(ev.lines) = 2 /\ ev.lines[1] = Dropped /\ IsAccepted(ev.lines[2])
  /\ Len(ev.sent) = 1 /\ ev.sent[1].msg.request_id = ev.lines[2].request_id

\* C5: in automatic mode a request is handed to the remote service before
\* anything is answered, a failed remote call is answered with the echo
\* marker and the prompt, and no response is an error.
C5_AutoFallback ==
  backend = "auto" =>
    /\ ev.kind = "data" =>
         /\ ev.sent = <<>>
         /\ Len(ev.calls) = Len(StreamRequests)
         /\ \A i \in 1..Len(ev.calls) :
              ev.calls[i].prompt = StreamRequests[i].prompt
    /\ ev.kind = "settle" =>
         /\ Len(ev.sent) = 1
         /\ ~IsErrorText(ev.sent[1].msg.response)
         /\ RemoteFailed(ev.reply) =>
              ev.sent[1].msg.response = <<EchoMarker, ev.sent[1].from.msg.prompt>>

\* C5 witness: the remote call timed out and the echo went out.
C5_Witness ==
  /\ backend = "auto" /\ ev.kind = "settle" /\ ev.reply.kind = "timeout"
  /\ Len(ev.sent) = 1 /\ ev.sent[1].msg.response = <<EchoMarker, "2+2?">>

\* C6: in forced-remote mode a failed remote call is answered with an error
\* text, never with the echo.
C6_ForcedRemoteFails ==
  (backend = "ollama" /\ ev.kind = "settle" /\ RemoteFailed(ev.reply)) =>
    /\ Len(ev.sent) = 1
    /\ IsResponseFor(ev.sent[1], ev.sent[1].from.msg)
    /\ IsErrorText(ev.sent[1].msg.response)
    /\ ev.sent[1].msg.response # <<EchoMarker, ev.sent[1].from.msg.prompt>>

\* C6 witness: a malformed payload has been answered with an error text.
C6_Witness ==
  /\ backend = "ollama" /\ ev.kind = "settle" /\ ev.reply.body = "notjson"
  /\ Len(ev.sent) = 1 /\ IsErrorText(ev.sent[1].msg.response)

\* C7: in forced-local-echo mode no remote call is ever issued or pending and
\* every accepted request is answered at once with the echo marker and its
\* prompt; request r1 with prompt 2+2? is answered r1, [echo] 2+2?.
C7_EchoMode ==
  backend = "echo" =>
    /\ ev.calls = <<>>
    /\ \A c \in Conns : pending[c] = <<>>
    /\ ev.kind = "data" =>
         /\ Len(ev.sent) = Len(StreamRequests)
         /\ \A i \in 1..Len(StreamRequests) :
              /\ ev.sent[i].msg.request_id = StreamRequests[i].request_id
              /\ ev.sent[i].msg.response
                   = <<EchoMarker, StreamRequests[i].prompt>>
              /\ (StreamRequests[i].request_id = "r1"
                    /\ StreamRequests[i].prompt = "2+2?")
                 => ev.sent[i].msg.response = <<"[echo] ", "2+2?">>

\* C7 witness: request r1 with prompt 2+2? has been answered in echo mode.
C7_Witness ==
  /\ backend = "echo" /\ ev.kind = "data" /\ Len(ev.sent) = 1
  /\ ev.sent[1].msg.request_id = "r1"
  /\ ev.sent[1].msg.response = <<"[echo] ", "2+2?">>

\* C8: the registry holds a record for a peer id exactly when a socket of
\* that peer is open.
C8_RegistryIsOpenPeers ==
  \A p \in {"pk1", "?"} :
    p \in DOMAIN peers <=> \E c \in Conns : connState[c] = "open" /\ connPeer[c] = p

\* C9: the handler processes the handshakes and accepted requests of a socket
\* in the order their newlines arrived: what one event handles is what the
\* stream completed, in stream order; a handshake among them is in the
\* registry; the requests are dispatched in that order.
C9_StreamOrder ==
  ev.kind = "data" =>
    /\ ev.handled = SelectSeq(ev.lines, IsRecognized)
    /\ buf[ev.conn] = tail[ev.conn]
    /\ (\E k \in 1..Len(ev.lines) : ev.lines[k].type = "peer_hello") =>
         /\ connPeer[ev.conn] \in DOMAIN peers
         /\ peers[connPeer[ev.conn]].node_name = "alice"
    /\ IF backend = "echo"
         THEN \A i \in 1..Len(ev.sent) :
                i <= Len(StreamRequests)
                /\ ev.sent[i].from.msg = StreamRequests[i]
         ELSE \A i \in 1..Len(ev.calls) :
                i <= Len(StreamRequests)
                /\ ev.calls[i].prompt = StreamRequests[i].prompt

\* C9 witness: one event handled a handshake and then a request.
C9_Witness ==
  /\ ev.kind = "data" /\ Len(ev.handled) = 2
  /\ ev.handled[1].type = "peer_hello" /\ IsRequest(ev.handled[2])
  /\ ev.lines = ev.handled

\* C10: nothing that arrives on a socket waits for a pending request: the
\* stream hands every chunk to the handler as it arrives, and an event that
\* finds older requests of its socket pending still handles every handshake
\* and request its chunk completed, writing no response for the pending ones.
C10_ReadLoopNotBlocked ==
  /\ \A c \in Conns : unread[c] = <<>>
  /\ (ev.kind = "data" /\ Len(pending[ev.conn]) > Len(ev.calls)) =>
       /\ Len(ev.handled) = Len(SelectSeq(ev.lines, IsRecognized))
       /\ ev.sent = <<>>

\* C10 witness: an event dispatched a request while an earlier request of the
\* same socket was still pending.
C10_Witness ==
  /\ ev.kind = "data" /\ Len(ev.calls) = 1 /\ Len(ev.handled) = 1
  /\ Len(pending[ev.conn]) = 2

\* A request with this request_id is dispatched on socket c and its remote
\* call has not settled.
InFlight(c, r) ==
  \E i \in 1..Len(pending[c]) : pending[c][i].msg.request_id = r

\* A response to request r has just been written to the open socket c.
Answered(c, r) ==
  /\ ev.kind = "settle" /\ ev.conn = c
  /\ \E k \in 1..Len(ev.sent) :
       /\ ev.sent[k].live /\ ev.sent[k].sock = c
       /\ ev.sent[k].msg.type = "inference_response"
       /\ ev.sent[k].msg.request_id = r

\* C32: a request in flight on a socket is eventually answered on it unless
\* the socket closes, whether or not the service ever replies; when the wait
\* expires the answer is the echo in automatic mode and an error text in
\* forced-remote mode.
C32_EventuallyAnswered ==
  /\ \A c \in Conns, r \in {"r1", "r2"} :
       InFlight(c, r) ~> (Answered(c, r) \/ connState[c] # "open")
  /\ [](ev.kind = "settle" /\ ev.reply = Expired =>
         /\ Len(ev.sent) = 1
         /\ ev.sent[1].msg.response =
              IF backend = "auto"
                THEN <<EchoMarker, ev.sent[1].from.msg.prompt>>
              ELSE <<ErrorMarker, "request timeout">>)

\* C32 witness: the wait for the reply to a request expired in forced-remote
\* mode and the error went out on the open socket.
C32_Witness ==
  /\ backend = "ollama" /\ Answered(ev.conn, "r2") /\ ev.reply = Expired
  /\ IsErrorText(ev.sent[1].msg.response)

\* C33: once a socket has closed nothing of it is in flight any more: no
\* inference_response is handed to send() for a socket that is not open.
C33_NoResponseAfterClose ==
  \A i \in 1..Len(ev.sent) :
    ev.sent[i].msg.type = "inference_response" =>
      connState[ev.sent[i].sock] = "open"

\* C34: a line is dispatched when its newline arrives and not before: what
\* has no newline yet stays in the handler's buffer and is neither applied nor
\* dispatched; a recognized line whose text was held from an earlier chunk is
\* the first thing the event that brings its newline handles, and that event
\* handles each line it completes once; the close event handles nothing, so
\* a fragment held at the close is never dispatched.
C34_DispatchOnNewline ==
  /\ ev.kind = "data" =>
       /\ buf[ev.conn] = tail[ev.conn]
       /\ Len(ev.handled) = Len(SelectSeq(ev.lines, IsRecognized))
       /\ (ev.held # <<>> /\ IsRecognized(JSONparse(ev.held))) =>
            /\ ev.handled # <<>>
            /\ ev.handled[1] = JSONparse(ev.held)
       /\ backend # "echo" => Len(ev.calls) = Len(StreamRequests)
       /\ backend = "echo" => Len(ev.sent) = Len(StreamRequests)
  /\ ev.kind = "close" =>
       ev.handled = <<>> /\ ev.calls = <<>> /\ ev.sent = <<>>

\* C34 witness: the text of request r2 arrived in one chunk and its newline
\* in a later one; the request was dispatched once, by the later event, and
\* nothing is buffered.
C34_Witness ==
  /\ ev.kind = "data" /\ ev.held = <<Req2Text>>
  /\ Len(ev.handled) = 1 /\ ev.handled[1].request_id = "r2"
  /\ Len(ev.calls) = 1 /\ Len(pending[ev.conn]) = 1
  /\ buf[ev.conn] = <<>>

\* ------------------------------------------------- input that is ignored
\* The texts the handler has no branch for: an unparsable line, a message of
\* unknown type, an inference_response, an inference_request without
\* request_id or without prompt.  An empty line is two newlines in a row.
IgnoredTexts ==
  {GarbageText, UnknownTypeText, ResponseText, ReqNoIdText, ReqNoPromptText}

RECURSIVE FramedOf(_, _, _)
\* Framed, for the texts of T.
FramedOf(T, n, afterText) ==
  IF n = 0 THEN {<<>>}
  ELSE { <<NL>> \o r : r \in FramedOf(T, n - 1, FALSE) }
       \cup (IF afterText THEN {}
             ELSE { <<x>> \o r : x \in T, r \in FramedOf(T, n - 1, TRUE) })

\* Ignored input, and request r1 so that a request can be in flight.
MixedChunkTable ==
  [room \in 0..MaxTokens, afterText \in BOOLEAN |->
     UNION { FramedOf(IgnoredTexts \cup {Req1Text}, n, afterText)
               : n \in 1..room }]

MixedChunks(room, afterText) == MixedChunkTable[room, afterText]

\* Chunks of the two requests a peer may send, cut anywhere.
RequestChunkTable ==
  [room \in 0..MaxTokens, afterText \in BOOLEAN |->
     UNION { FramedOf({Req1Text, Req2Text}, n, afterText) : n \in 1..room }]

\* The daemon fed with requests only.
FairNext ==
  \/ \E c \in Conns, info \in Infos : Connect(c, info)
  \/ \E c \in Conns :
       \E chunk \in RequestChunkTable[MaxTokens - ntok, tail[c] # <<>>] :
         Data(c, chunk)
  \/ \E c \in Conns, i \in 1..MaxTokens, reply \in Replies : Complete(c, i, reply)
  \/ \E c \in Conns : Close(c)

\* The daemon fed with ignored input and request r1.
IgnoredNext ==
  \/ \E c \in Conns, info \in Infos : Connect(c, info)
  \/ \E c \in Conns :
       \E chunk \in MixedChunks(MaxTokens - ntok, tail[c] # <<>>) :
         Data(c, chunk)
  \/ \E c \in Conns, i \in 1..MaxTokens, reply \in Replies : Complete(c, i, reply)
  \/ \E c \in Conns : Close(c)

\* The service may never answer; a timer that is armed does expire.
FairSpec == Init /\ [][FairNext]_vars /\ \A c \in Conns : WF_vars(Expire(c))

IgnoredSpec == Init /\ [][IgnoredNext]_vars

\* C35: a data event that completes no line other than ignored ones (empty,
\* unparsable, of unknown type, an inference_response, an inference_request
\* without request_id or prompt, all read as Dropped by the reference reading
\* of the stream) writes nothing, issues no remote call, and leaves the
\* registry, the snapshot, the requests in flight and every socket as they
\* were.
C35_IgnoredInputNoEffect ==
  [][(ev'.kind = "data" /\ \A i \in 1..Len(ev'.lines) : ev'.lines[i] = Dropped) =>
       /\ ev'.sent = <<>> /\ ev'.calls = <<>> /\ ev'.handled = <<>>
       /\ peers' = peers /\ peersFile' = peersFile
       /\ pending' = pending /\ connState' = connState]_vars

\* C35 witness: an ignored line reached a socket in one chunk while the
\* registry held its peer and a request was in flight on it.
C35_Witness ==
  /\ ev.kind = "data" /\ ev.held = <<>> /\ ev.handled = <<>>
  /\ ev.lines = <<Dropped>> /\ tail[ev.conn] = <<>>
  /\ connPeer[ev.conn] \in DOMAIN peers
  /\ peersFile # <<>> /\ pending[ev.conn] # <<>>

\* ===================================================================
\* main(): topic joins and shutdown
\* ===================================================================
MaxJoins == 3      \* cluster identifiers the daemon is started with

Topics == 1..njoins

\* What ends with the process: a topic still joined is dropped, not released.
ProcessGone(j) ==
  [i \in DOMAIN j |-> IF j[i] = "joined" THEN "lost" ELSE j[i]]

AllSettled(d) == \A i \in DOMAIN d : d[i] \in {"done", "failed"}

MainInit ==
  /\ mainPc = "start"
  /\ njoins \in 0..MaxJoins
  /\ awaitIdx = 0
  /\ joined = [i \in 1..njoins |-> "none"]
  /\ flush = [i \in 1..njoins |-> "none"]
  /\ destroyP = [i \in 1..njoins |-> "none"]
  /\ signal = "none"
  /\ exitCode = "none"
  /\ peers = <<>>
  /\ peersFile = <<>>
  /\ backend = "auto"
  /\ supported = <<>>
  /\ connState = [c \in Conns |-> "idle"]
  /\ connPeer = [c \in Conns |-> "?"]
  /\ buf = [c \in Conns |-> <<>>]
  /\ unread = [c \in Conns |-> <<>>]
  /\ pending = [c \in Conns |-> <<>>]
  /\ ntok = 0
  /\ tail = [c \in Conns |-> <<>>]
  /\ ev = [kind |-> "none"]
  /\ MainOthersIdle

\* main() up to its first await: the peers file, the connection listener,
\* one swarm.join per identifier, the first flushed().
MainStart ==
  /\ mainPc = "start"
  /\ peersFile' = peers
  /\ joined' = [i \in Topics |-> "joined"]
  /\ IF njoins = 0
       THEN /\ mainPc' = "ready"
            /\ UNCHANGED <<awaitIdx, flush>>
       ELSE /\ mainPc' = "awaiting"
            /\ awaitIdx' = 1
            /\ flush' = [flush EXCEPT ![1] = "pending"]
  /\ UNCHANGED <<njoins, destroyP, signal, exitCode, peers, mainRest>>

\* The awaited flushed() resolves: the loop goes on, and past the last
\* discovery main() logs the joined clusters and registers the handlers.
FlushResolves ==
  /\ mainPc = "awaiting"
  /\ flush[awaitIdx] = "pending"
  /\ IF awaitIdx = njoins
       THEN /\ mainPc' = "ready"
            /\ flush' = [flush EXCEPT ![awaitIdx] = "flushed"]
            /\ UNCHANGED awaitIdx
       ELSE /\ awaitIdx' = awaitIdx + 1
            /\ flush' = [flush EXCEPT ![awaitIdx] = "flushed",
                                      ![awaitIdx + 1] = "pending"]
            /\ UNCHANGED mainPc
  /\ UNCHANGED <<njoins, joined, destroyP, signal, exitCode, peers, peersFile,
                 mainRest>>

\* What main().catch does with a rejected flushed(): process.exit(1).
onJoinFailure(pc) == "exited"

\* The awaited flushed() rejects: main() rejects and main().catch runs.
FlushRejects ==
  /\ mainPc = "awaiting"
  /\ flush[awaitIdx] = "pending"
  /\ flush' = [flush EXCEPT ![awaitIdx] = "failed"]
  /\ mainPc' = onJoinFailure(mainPc)
  /\ IF mainPc' = "exited"
       THEN /\ exitCode' = "1"
            /\ joined' = ProcessGone(joined)
       ELSE UNCHANGED <<exitCode, joined>>
  /\ UNCHANGED <<njoins, awaitIdx, destroyP, signal, peers, peersFile,
                 mainRest>>

\* The awaited flushed() never settles.
FlushStalls ==
  /\ mainPc = "awaiting"
  /\ flush[awaitIdx] = "pending"
  /\ flush' = [flush EXCEPT ![awaitIdx] = "stalled"]
  /\ UNCHANGED <<mainPc, njoins, awaitIdx, joined, destroyP, signal, exitCode,
                 peers, peersFile, mainRest>>

\* A connection is accepted while main() runs: what setupConnection does to
\* the registry.
MainAccept(info) ==
  LET peerId == peerIdOf(info)
      rec == [peer_id |-> peerId, node_name |-> "unknown",
              clusters |-> extractPeerClusters(info)]
  IN /\ mainPc \in {"awaiting", "ready", "shutting"}
     /\ peerId \notin DOMAIN peers
     /\ peers' = MapSet(peers, peerId, rec)
     /\ peersFile' = writePeersFile(peers')
     /\ UNCHANGED <<mainVars, mainRest>>

\* Whether the process has a listener for the signal: process.on is reached
\* only after the loop.
handlesSignal(pc) == pc = "ready"

\* SIGINT or SIGTERM arrives (one per run).  With the listener in place
\* shutdown() runs; without it the signal's default action ends the process.
Signal(sig) ==
  /\ mainPc \in {"awaiting", "ready"}
  /\ signal = "none"
  /\ signal' = sig
  /\ IF handlesSignal(mainPc)
       THEN /\ peers' = <<>>
            /\ peersFile' = <<>>
            /\ destroyP' = [i \in Topics |-> "pending"]
            /\ IF njoins = 0
                 THEN mainPc' = "exited" /\ exitCode' = "0"
               ELSE mainPc' = "shutting" /\ UNCHANGED exitCode
            /\ UNCHANGED joined
       ELSE /\ mainPc' = "exited"
            /\ exitCode' = "killed"
            /\ joined' = ProcessGone(joined)
            /\ UNCHANGED <<peers, peersFile, destroyP>>
  /\ UNCHANGED <<njoins, awaitIdx, flush, mainRest>>

\* One destroy() settles; a rejection is swallowed by its .catch.  When all
\* have settled Promise.all resolves and process.exit(0) runs.
DestroySettles(i, ok) ==
  /\ mainPc = "shutting"
  /\ i \in Topics
  /\ destroyP[i] = "pending"
  /\ destroyP' = [destroyP EXCEPT ![i] = IF ok THEN "done" ELSE "failed"]
  /\ LET j == IF ok THEN [joined EXCEPT ![i] = "released"] ELSE joined
     IN IF AllSettled(destroyP')
          THEN /\ mainPc' = "exited"
               /\ exitCode' = "0"
               /\ joined' = ProcessGone(j)
          ELSE /\ joined' = j
               /\ UNCHANGED <<mainPc, exitCode>>
  /\ UNCHANGED <<njoins, awaitIdx, flush, signal, peers, peersFile, mainRest>>

MainNext ==
  \/ MainStart
  \/ FlushResolves
  \/ FlushRejects
  \/ FlushStalls
  \/ \E info \in Infos : MainAccept(info)
  \/ \E sig \in {"SIGINT", "SIGTERM"} : Signal(sig)
  \/ \E i \in 1..MaxJoins, ok \in BOOLEAN : DestroySettles(i, ok)

MainSpec == MainInit /\ [][MainNext]_allVars

\* C11: a failed or stalled join of one topic leaves the other topics
\* joined for as long as no termination signal was received.
C11_JoinsIndependent ==
  \A i \in Topics, j \in Topics :
    (i # j /\ flush[i] \in {"failed", "stalled"} /\ signal = "none")
      => joined[j] = "joined"

\* C12: when the process has exited after a termination signal, every topic
\* it had joined has been released.
C12_ReleasedBeforeExit ==
  (mainPc = "exited" /\ signal # "none")
    => \A i \in Topics : joined[i] = "released"

\* ===================================================================
\* resolveClusterIds()
\* ===================================================================
\* A string is the sequence of its characters.
MaxEnvLen == 3     \* characters of POC_CLUSTER_IDS

DefaultClusterId == <<"gatewayai-poc">>
EnvChars == {"a", " ", ","}

RECURSIVE SeqsUpTo(_, _)
SeqsUpTo(S, n) ==
  IF n = 0 THEN {<<>>}
  ELSE LET shorter == SeqsUpTo(S, n - 1)
       IN shorter \cup {Append(q, x) : q \in {r \in shorter : Len(r) = n - 1},
                                       x \in S}

RECURSIVE splitComma(_, _, _)
\* String.prototype.split(','): the pieces between the commas, in order.
splitComma(str, cur, acc) ==
  IF str = <<>> THEN Append(acc, cur)
  ELSE IF str[1] = "," THEN splitComma(Tail(str), <<>>, Append(acc, cur))
  ELSE splitComma(Tail(str), Append(cur, str[1]), acc)

\* An absent (undefined) string-valued field, and a null array entry.
Undefined == <<"undefined">>
NullEntry == <<"null entry">>

\* Boolean(x) of a string or an absent value.
Truthy(x) == x # Undefined /\ x # <<>>

RECURSIVE MapTrim(_)
MapTrim(items) ==
  IF items = <<>> THEN <<>> ELSE <<trim(items[1])>> \o MapTrim(Tail(items))

\* .filter(Boolean)
FilterTruthy(items) == SelectSeq(items, Truthy)

RECURSIVE MapId(_)
\* .map((c) => c.id)
MapId(entries) ==
  IF entries = <<>> THEN <<>> ELSE <<entries[1].id>> \o MapId(Tail(entries))

\* config.json
Configs ==
  {Throws} \cup {[kind |-> "object", cluster_id |-> v] :
                   v \in {Undefined, <<>>, <<"c">>}}

\* The entries of state.clusters: with an id, without one, with an empty one;
\* null (reading .id of it throws).
StateEntries ==
  {[id |-> <<"s">>], [id |-> Undefined], [id |-> <<>>], [id |-> NullEntry]}

\* state.json
States ==
  {Throws, [kind |-> "object", has_clusters |-> FALSE, clusters |-> <<>>]}
    \cup {[kind |-> "object", has_clusters |-> TRUE, clusters |-> cs] :
            cs \in SeqsUpTo(StateEntries, 2)}

Environments ==
  [list : SeqsUpTo(EnvChars, MaxEnvLen),
   single : {<<>>, <<" ">>, <<"a">>, <<" ", "a", " ">>},
   config : Configs,
   state : States]

NoReturn == [returns |-> FALSE, ids |-> <<>>]
Return(ids) == [returns |-> TRUE, ids |-> ids]

\* The state.json branch.
fromState(state) ==
  IF state.kind = "throws" THEN NoReturn
  ELSE IF ~state.has_clusters \/ state.clusters = <<>> THEN NoReturn
  ELSE IF \E i \in 1..Len(state.clusters) : state.clusters[i].id = NullEntry
    THEN NoReturn
  ELSE Return(FilterTruthy(MapId(state.clusters)))

\* The config.json branch.
fromConfig(config) ==
  IF config.kind = "throws" THEN NoReturn
  ELSE IF Truthy(config.cluster_id) THEN Return(<<config.cluster_id>>)
  ELSE NoReturn

resolveClusterIds(e) ==
  LET fromEnvList == FilterTruthy(MapTrim(splitComma(e.list, <<>>, <<>>)))
      fromEnvSingle == trim(e.single)
  IN IF Len(fromEnvList) > 0 THEN fromEnvList
     ELSE IF Truthy(fromEnvSingle) THEN <<fromEnvSingle>>
     ELSE IF fromConfig(e.config).returns THEN fromConfig(e.config).ids
     ELSE IF fromState(e.state).returns THEN fromState(e.state).ids
     ELSE <<DefaultClusterId>>

ResolveInit ==
  /\ environment \in Environments
  /\ resolved = [done |-> FALSE, ids |-> <<>>]
  /\ ResolveOthersIdle

\* const CLUSTER_IDS = resolveClusterIds();
Resolve ==
  /\ ~resolved.done
  /\ resolved' = [done |-> TRUE, ids |-> resolveClusterIds(environment)]
  /\ UNCHANGED <<environment, resolveRest>>

ResolveNext == Resolve

ResolveSpec == ResolveInit /\ [][ResolveNext]_allVars

\* C13: whatever the environment, the config file and the state file hold,
\* the resolved cluster membership is non-empty, and it is the default
\* identifier alone when none of them yields an identifier.
C13_NeverEmpty ==
  resolved.done =>
    /\ resolved.ids # <<>>
    /\ (/\ FilterTruthy(MapTrim(splitComma(environment.list, <<>>, <<>>))) = <<>>
        /\ ~Truthy(trim(environment.single))
        /\ ~fromConfig(environment.config).returns
        /\ fromState(environment.state).ids = <<>>)
         => resolved.ids = <<DefaultClusterId>>

\* C30: the list resolveClusterIds returns holds no identifier twice, so
\* main() joins no topic twice.
C30_NoDuplicateIds ==
  resolved.done =>
    \A i, j \in 1..Len(resolved.ids) :
      i # j => resolved.ids[i] # resolved.ids[j]

\* ===================================================================
\* The rendezvous topic: daemon and Request Client
\* ===================================================================
\* Identifiers and topics are sequences of bytes.
TopicLen == 32

\* crypto.createHash('sha256').update(id).digest() for the identifiers of
\* the model: the empty one, the short ones over "a" and "b", the default
\* one, and some around and past the topic length.
Sha256Pairs ==
  <<
  [id |-> <<>>,
   digest |-> <<227, 176, 196, 66, 152, 252, 28, 20, 154, 251,
               244, 200, 153, 111, 185, 36, 39, 174, 65, 228, 100, 155, 147,
               76, 164, 149, 153, 27, 120, 82, 184, 85>>],
  [id |-> <<97>>,
   digest |-> <<202, 151, 129, 18, 202, 27, 189, 202, 250, 194,
               49, 179, 154, 35, 220, 77, 167, 134, 239, 248, 20, 124, 78,
               114, 185, 128, 119, 133, 175, 238, 72, 187>>],
  [id |-> <<98>>,
   digest |-> <<62, 35, 232, 22, 0, 57, 89, 74, 51, 137, 79, 101,
               100, 225, 177, 52, 139, 189, 122, 0, 136, 212, 44, 74, 203,
               115, 238, 174, 213, 156, 0, 157>>],
  [id |-> <<97, 97>>,
   digest |-> <<150, 27, 109, 211, 237, 227, 203, 142, 203, 170,
               203, 214, 141, 224, 64, 205, 120, 235, 46, 213, 136, 145, 48,
               204, 235, 76, 73, 38, 142, 164, 213, 6>>],
  [id |-> <<97, 98>>,
   digest |-> <<251, 142, 32, 252, 46, 76, 63, 36, 140, 96, 195,
               155, 214, 82, 243, 193, 52, 114, 152, 187, 151, 123, 139, 77,
               89, 3, 184, 80, 85, 98, 6, 3>>],
  [id |-> <<98, 97>>,
   digest |-> <<151, 15, 81, 156, 44, 173, 188, 239, 177, 232,
               22, 148, 249, 4, 188, 98, 41, 221, 42, 131, 0, 233, 140, 109,
               13, 79, 196, 191, 202, 88, 65, 64>>],
  [id |-> <<98, 98>>,
   digest |-> <<59, 100, 219, 149, 203, 85, 199, 99, 57, 28, 112,
               113, 8, 72, 154, 225, 139, 65, 18, 215, 131, 48, 13, 227, 142,
               3, 59, 76, 152, 195, 222, 175>>],
  [id |-> <<97, 97, 97>>,
   digest |-> <<152, 52, 135, 109, 207, 176, 92, 177, 103, 165,
               194, 73, 83, 235, 165, 140, 74, 200, 155, 26, 223, 87, 242,
               143, 47, 157, 9, 175, 16, 126, 232, 240>>],
  [id |-> <<97, 97, 98>>,
   digest |-> <<56, 118, 14, 171, 182, 102, 232, 230, 30, 230,
               40, 161, 124, 64, 144, 204, 80, 114, 142, 9, 95, 242, 66, 24,
               17, 157, 81, 189, 34, 71, 83, 99>>],
  [id |-> <<97, 98, 97>>,
   digest |-> <<225, 36, 173, 204, 225, 251, 47, 136, 225, 234,
               121, 156, 61, 8, 32, 132, 94, 211, 67, 230, 199, 57, 229, 65,
               49, 252, 179, 165, 110, 75, 193, 189>>],
  [id |-> <<97, 98, 98>>,
   digest |-> <<113, 94, 223, 139, 168, 114, 148, 32, 205, 77,
               28, 232, 94, 214, 25, 84, 169, 245, 49, 248, 197, 72, 223,
               114, 140, 64, 126, 255, 232, 57, 41, 109>>],
  [id |-> <<98, 97, 97>>,
   digest |-> <<102, 94, 218, 230, 213, 38, 102, 209, 62, 53,
               115, 204, 66, 246, 121, 156, 164, 21, 184, 115, 18, 195, 189,
               15, 163, 126, 164, 78, 13, 225, 254, 100>>],
  [id |-> <<98, 97, 98>>,
   digest |-> <<236, 221, 151, 64, 92, 121, 180, 8, 238, 119,
               145, 2, 157, 5, 210, 181, 120, 147, 217, 176, 106, 18, 130,
               83, 30, 13, 247, 41, 218, 239, 206, 245>>],
  [id |-> <<98, 98, 97>>,
   digest |-> <<50, 78, 141, 87, 22, 175, 228, 119, 81, 24, 254,
               18, 37, 111, 211, 212, 136, 204, 229, 117, 227, 117, 206, 111,
               142, 177, 108, 180, 181, 187, 181, 211>>],
  [id |-> <<98, 98, 98>>,
   digest |-> <<62, 116, 75, 157, 195, 147, 137, 186, 240, 197,
               160, 102, 5, 137, 184, 64, 47, 61, 187, 73, 184, 155, 62, 117,
               242, 201, 53, 88, 82, 163, 198, 119>>],
  [id |-> <<97, 97, 97, 97>>,
   digest |-> <<97, 190, 85, 168, 226, 246, 180, 225, 114, 51,
               139, 221, 241, 132, 214, 219, 238, 41, 201, 136, 83, 224, 160,
               72, 94, 206, 231, 242, 123, 154, 240, 180>>],
  [id |-> <<97, 97, 97, 98>>,
   digest |-> <<133, 233, 15, 127, 14, 113, 7, 152, 6, 70, 152,
               49, 137, 90, 205, 98, 1, 51, 187, 224, 147, 124, 197, 64, 53,
               98, 150, 139, 188, 125, 141, 30>>],
  [id |-> <<97, 97, 98, 97>>,
   digest |-> <<105, 66, 59, 101, 142, 232, 176, 128, 71, 82,
               117, 220, 55, 98, 105, 247, 31, 54, 33, 27, 152, 79, 56, 129,
               124, 109, 113, 214, 34, 109, 70, 72>>],
  [id |-> <<97, 97, 98, 98>>,
   digest |-> <<72, 107, 52, 37, 11, 212, 64, 12, 10, 169, 5, 22,
               252, 233, 169, 192, 99, 58, 146, 46, 180, 13, 8, 40, 207, 41,
               155, 196, 232, 37, 172, 244>>],
  [id |-> <<97, 98, 97, 97>>,
   digest |-> <<240, 44, 183, 124, 3, 105, 205, 7, 203, 119, 49,
               107, 198, 90, 122, 138, 230, 127, 60, 184, 219, 3, 5, 98, 169,
               227, 240, 34, 250, 100, 99, 202>>],
  [id |-> <<97, 98, 97, 98>>,
   digest |-> <<166, 103, 40, 38, 117, 244, 135, 96, 33, 211,
               146, 170, 101, 146, 243, 157, 171, 247, 24, 116, 140, 75, 115,
               133, 99, 203, 157, 93, 200, 242, 31, 36>>],
  [id |-> <<97, 98, 98, 97>>,
   digest |-> <<226, 33, 21, 181, 215, 102, 64, 226, 56, 155,
               202, 194, 92, 70, 162, 223, 3, 178, 223, 101, 124, 91, 63,
               243, 44, 186, 237, 20, 31, 142, 142, 240>>],
  [id |-> <<97, 98, 98, 98>>,
   digest |-> <<1, 209, 98, 165, 201, 93, 70, 152, 192, 163, 231,
               102, 174, 128, 216, 89, 148, 181, 73, 184, 119, 237, 39, 88,
               3, 114, 95, 67, 218, 220, 131, 189>>],
  [id |-> <<98, 97, 97, 97>>,
   digest |-> <<165, 102, 162, 143, 59, 134, 6, 137, 234, 128,
               31, 155, 44, 69, 65, 20, 227, 208, 25, 195, 48, 23, 223, 126,
               245, 133, 155, 120, 149, 59, 4, 21>>],
  [id |-> <<98, 97, 97, 98>>,
   digest |-> <<84, 119, 211, 25, 114, 54, 64, 140, 94, 157, 17,
               187, 211, 50, 220, 149, 23, 107, 113, 229, 129, 239, 202, 211,
               89, 59, 30, 155, 228, 131, 141, 228>>],
  [id |-> <<98, 97, 98, 97>>,
   digest |-> <<231, 90, 108, 212, 58, 22, 194, 243, 29, 26, 60,
               23, 112, 10, 246, 77, 54, 88, 163, 128, 196, 157, 101, 178,
               12, 199, 91, 31, 124, 14, 0, 27>>],
  [id |-> <<98, 97, 98, 98>>,
   digest |-> <<57, 40, 15, 177, 236, 156, 226, 249, 167, 242,
               209, 255, 150, 163, 10, 230, 5, 213, 34, 14, 94, 41, 205, 140,
               163, 171, 216, 171, 45, 160, 95, 12>>],
  [id |-> <<98, 98, 97, 97>>,
   digest |-> <<96, 16, 185, 23, 60, 20, 184, 198, 174, 237, 178,
               101, 82, 13, 144, 226, 79, 35, 33, 210, 86, 21, 87, 220, 197,
               159, 7, 121, 159, 97, 50, 74>>],
  [id |-> <<98, 98, 97, 98>>,
   digest |-> <<43, 205, 11, 225, 21, 93, 164, 55, 68, 197, 214,
               109, 183, 196, 118, 5, 128, 13, 204, 157, 246, 244, 88, 115,
               83, 71, 240, 88, 190, 247, 135, 73>>],
  [id |-> <<98, 98, 98, 97>>,
   digest |-> <<146, 123, 122, 176, 9, 235, 108, 65, 160, 248,
               12, 181, 41, 43, 222, 133, 25, 246, 107, 249, 136, 114, 206,
               13, 190, 205, 193, 158, 82, 63, 0, 134>>],
  [id |-> <<98, 98, 98, 98>>,
   digest |-> <<129, 204, 91, 23, 1, 134, 116, 180, 1, 180, 47,
               53, 186, 7, 187, 121, 226, 17, 35, 156, 35, 191, 254, 101,
               141, 161, 87, 126, 62, 100, 104, 119>>],
  [id |-> <<103, 97, 116, 101, 119, 97, 121, 97, 105, 45, 112, 111, 99>>,
   digest |-> <<90, 201, 21, 34, 65, 220, 4, 174, 13, 203, 241,
               34, 157, 148, 189, 235, 183, 163, 93, 21, 119, 148, 127, 167,
               49, 229, 90, 1, 185, 252, 19, 11>>],
   [id |-> <<97, 97, 97, 97, 97, 97, 97, 97, 97, 97, 97, 97, 97,
               97, 97, 97, 97, 97, 97, 97, 97, 97, 97, 97, 97, 97, 97, 97,
               97, 97, 97>>,
   digest |-> <<97, 198, 11, 72, 125, 26, 146, 30, 11, 204, 155,
               248, 83, 221, 160, 251, 21, 155, 48, 191, 87, 178, 226, 210,
               199, 83, 176, 11, 225, 91, 90, 9>>],
   [id |-> <<97, 97, 97, 97, 97, 97, 97, 97, 97, 97, 97, 97, 97,
               97, 97, 97, 97, 97, 97, 97, 97, 97, 97, 97, 97, 97, 97, 97,
               97, 97, 98>>,
   digest |-> <<62, 1, 156, 19, 146, 94, 3, 108, 144, 190, 107,
               64, 219, 102, 30, 59, 69, 250, 190, 235, 33, 226, 218, 42, 97,
               37, 115, 70, 135, 22, 126, 144>>],
   [id |-> <<97, 97, 97, 97, 97, 97, 97, 97, 97, 97, 97, 97, 97,
               97, 97, 97, 97, 97, 97, 97, 97, 97, 97, 97, 97, 97, 97, 97,
               97, 97, 97, 97>>,
   digest |-> <<59, 163, 245, 244, 59, 146, 96, 38, 131, 193,
               154, 238, 98, 162, 3, 66, 176, 132, 221, 89, 113, 221, 211,
               56, 8, 216, 26, 50, 136, 121, 165, 71>>],
   [id |-> <<97, 97, 97, 97, 97, 97, 97, 97, 97, 97, 97, 97, 97,
               97, 97, 97, 97, 97, 97, 97, 97, 97, 97, 97, 97, 97, 97, 97,
               97, 97, 97, 98>>,
   digest |-> <<194, 6, 224, 120, 13, 176, 125, 27, 187, 157,
               185, 217, 221, 250, 125, 192, 185, 46, 29, 173, 52, 97, 154,
               70, 42, 88, 207, 8, 186, 2, 198, 24>>],
   [id |-> <<97, 97, 97, 97, 97, 97, 97, 97, 97, 97, 97, 97, 97,
               97, 97, 97, 97, 97, 97, 97, 97, 97, 97, 97, 97, 97, 97, 97,
               97, 97, 97, 97, 97>>,
   digest |-> <<133, 39, 133, 200, 5, 199, 126, 113, 162, 35, 64,
               165, 78, 157, 149, 147, 62, 212, 145, 33, 231, 210, 191, 60,
               45, 53, 136, 84, 188, 19, 89, 234>>],
   [id |-> <<97, 97, 97, 97, 97, 97, 97, 97, 97, 97, 97, 97, 97,
               97, 97, 97, 97, 97, 97, 97, 97, 97, 97, 97, 97, 97, 97, 97,
               97, 97, 97, 97, 98>>,
   digest |-> <<84, 84, 254, 16, 149, 164, 104, 36, 163, 176,
               238, 160, 176, 49, 94, 128, 203, 182, 70, 68, 37, 59, 227, 6,
               237, 222, 151, 253, 47, 206, 198, 83>>],
   [id |-> <<97, 97, 97, 97, 97, 97, 97, 97, 97, 97, 97, 97, 97,
               97, 97, 97, 97, 97, 97, 97, 97, 97, 97, 97, 97, 97, 97, 97,
               97, 97, 97, 97, 97, 97, 97, 97, 97, 97, 97, 97>>,
   digest |-> <<227, 60, 223, 156, 127, 113, 32, 185, 142, 140,
               120, 64, 137, 83, 224, 127, 46, 205, 24, 48, 6, 181, 96, 109,
               243, 73, 180, 194, 18, 172, 244, 62>>],
   [id |-> <<97, 97, 97, 97, 97, 97, 97, 97, 97, 97, 97, 97, 97,
               97, 97, 97, 97, 97, 97, 97, 97, 97, 97, 97, 97, 97, 97, 97,
               97, 97, 97, 97, 97, 97, 97, 97, 97, 97, 97, 98>>,
   digest |-> <<142, 156, 164, 109, 29, 188, 134, 214, 132, 139,
               255, 25, 66, 35, 5, 38, 218, 227, 66, 22, 216, 35, 55, 3, 146,
               23, 202, 225, 27, 181, 81, 214>>]
  >>

ClusterIdTexts == {Sha256Pairs[i].id : i \in DOMAIN Sha256Pairs}

sha256(bytes) ==
  Sha256Pairs[CHOOSE i \in DOMAIN Sha256Pairs : Sha256Pairs[i].id = bytes].digest

\* Buffer.alloc(32), then src.copy(topic, 0, 0, Math.min(src.length, 32)).
topicForCluster(id) ==
  [i \in 1..TopicLen |-> IF i <= Len(id) THEN id[i] ELSE 0]

\* const topic = crypto.createHash('sha256').update(CLUSTER_ID).digest();
clientTopicFor(id) == sha256(id)

TopicInit ==
  /\ clusterId \in ClusterIdTexts
  /\ daemonTopic = <<>>
  /\ clientTopic = <<>>
  /\ TopicOthersIdle

\* The daemon joins: swarm.join(topicForCluster(clusterId), ...).
DaemonJoins ==
  /\ daemonTopic = <<>>
  /\ daemonTopic' = topicForCluster(clusterId)
  /\ UNCHANGED <<clusterId, clientTopic, topicRest>>

\* The Request Client joins: swarm.join(topic, ...).
ClientJoins ==
  /\ clientTopic = <<>>
  /\ clientTopic' = clientTopicFor(clusterId)
  /\ UNCHANGED <<clusterId, daemonTopic, topicRest>>

TopicNext == DaemonJoins \/ ClientJoins

TopicSpec == TopicInit /\ [][TopicNext]_allVars

\* C14: for every cluster identifier the topic key of the Request Client
\* and the topic key of the daemon are the same bytes.
C14_SameTopic ==
  (daemonTopic # <<>> /\ clientTopic # <<>>) => daemonTopic = clientTopic

\* ===================================================================
\* The Request Client (send-prompt.js, listed in DISCOVERY.md)
\* ===================================================================
MaxClientTokens == 4   \* tokens the client receives during one run

\* crypto.randomUUID()
request_id == "u1"
ClientPrompt == "2+2?"

\* Line texts a peer may send to the client, and what JSON.parse makes of
\* each: the awaited response, a response to another request, a request
\* that carries the awaited id, a handshake, and text that is not JSON.
RespMineText == "{resp u1}"
RespOtherText == "{resp r9}"
ReqSameIdText == "{req u1}"
ClientTexts ==
  {RespMineText, RespOtherText, ReqSameIdText, HelloText, GarbageText}

ClientParse(line) ==
  IF Len(line) # 1 THEN Unparsable
  ELSE CASE line[1] = RespMineText ->
              [type |-> "inference_response", request_id |-> request_id]
         [] line[1] = RespOtherText ->
              [type |-> "inference_response", request_id |-> "r9"]
         [] line[1] = ReqSameIdText ->
              [type |-> "inference_request", request_id |-> request_id]
         [] line[1] = HelloText ->
              [type |-> "peer_hello", request_id |-> Null]
         [] OTHER -> Unparsable

RECURSIVE ClientFramed(_, _)
\* The chunks of n tokens a peer that writes whole lines can cause.
ClientFramed(n, afterText) ==
  IF n = 0 THEN {<<>>}
  ELSE { <<NL>> \o r : r \in ClientFramed(n - 1, FALSE) }
       \cup (IF afterText THEN {}
             ELSE { <<x>> \o r : x \in ClientTexts,
                                 r \in ClientFramed(n - 1, TRUE) })

ClientChunkTable ==
  [room \in 0..MaxClientTokens, afterText \in BOOLEAN |->
     UNION { ClientFramed(n, afterText) : n \in 1..room }]

ClientChunks(room, afterText) == ClientChunkTable[room, afterText]

\* The record of one event of the client: its socket, the lines the stream
\* completed (read token by token, see RefLines) and how many responses the
\* handler printed.
ClientEvent(kind, c, lines, shown) ==
  [kind |-> kind, conn |-> c, lines |-> lines, shown |-> shown]

\* The test a line must pass to end the wait; first without the id.
matches_AnyResponse(msg) == msg.type = "inference_response"

matches(msg) ==
  msg.type = "inference_response" /\ msg.request_id = request_id

\* The for loop of the 'data' handler: TRUE when a line passes the test (the
\* handler then returns, leaving the later lines of the event unread).
RECURSIVE FindsResponse(_)
FindsResponse(lines) ==
  IF lines = <<>> THEN FALSE
  ELSE IF lines[1] # <<>> /\ matches(ClientParse(lines[1])) THEN TRUE
  ELSE FindsResponse(Tail(lines))

\* The timer main() sets for the wait; first a client that sets none.
armTimer_None == "none"

armTimer == "armed"

\* Reference reading of a stream, token by token: the non-empty lines a
\* chunk completes, and the unterminated rest.
RECURSIVE RefLines(_, _)
RefLines(r, chunk) ==
  IF chunk = <<>> THEN r
  ELSE IF chunk[1] = NL
    THEN RefLines([tail |-> <<>>,
                   lines |-> IF r.tail = <<>> THEN r.lines
                             ELSE Append(r.lines, r.tail)],
                  Tail(chunk))
  ELSE RefLines([r EXCEPT !.tail = Append(r.tail, chunk[1])], Tail(chunk))

IsAwaited(line) == line = <<RespMineText>>

ClientInit ==
  /\ clientPc = "start"
  /\ clientExit = "none"
  /\ timer = "none"
  /\ done = "pending"
  /\ swarmState = "idle"
  /\ cconn = [c \in Conns |-> "idle"]
  /\ cbuf = [c \in Conns |-> <<>>]
  /\ cwritten = [c \in Conns |-> <<>>]
  /\ printed = 0
  /\ ctok = 0
  /\ ctail = [c \in Conns |-> <<>>]
  /\ cmatch = FALSE
  /\ cev = ClientEvent("init", 0, <<>>, 0)
  /\ ClientOthersIdle

\* main() up to "await done": the swarm, the timer, the listener, the join.
ClientStart ==
  /\ clientPc = "start"
  /\ clientPc' = "waiting"
  /\ timer' = armTimer
  /\ swarmState' = "joined"
  /\ cev' = ClientEvent("start", 0, <<>>, 0)
  /\ UNCHANGED <<clientExit, done, cconn, cbuf, cwritten, printed, ctok, ctail,
                 cmatch, clientRest>>

\* swarm.on('connection'): the request is written on the new socket.
ClientConnect(c) ==
  LET req == [type |-> "inference_request", request_id |-> request_id,
              prompt |-> ClientPrompt]
  IN /\ clientPc = "waiting"
     /\ swarmState = "joined"
     /\ cconn[c] = "idle"
     /\ \A d \in Conns : d < c => cconn[d] # "idle"
     /\ cconn' = [cconn EXCEPT ![c] = "open"]
     /\ cwritten' = [cwritten EXCEPT ![c] = <<req>>]
     /\ cev' = ClientEvent("connect", c, <<>>, 0)
     /\ UNCHANGED <<clientPc, clientExit, timer, done, swarmState, cbuf,
                    printed, ctok, ctail, cmatch, clientRest>>

\* socket.on('data').  On the awaited response: clearTimeout, console.log,
\* swarm.destroy() with resolve chained to it, return.
ClientData(c, chunk) ==
  LET pieces == Split(cbuf[c] \o chunk)
      found == FindsResponse(completeLines(pieces))
      ref == RefLines([tail |-> ctail[c], lines |-> <<>>], chunk)
  IN /\ clientPc = "waiting"
     /\ cconn[c] = "open"
     /\ ctok' = ctok + Len(chunk)
     /\ cbuf' = [cbuf EXCEPT ![c] = pendingBuf(pieces)]
     /\ ctail' = [ctail EXCEPT ![c] = ref.tail]
     /\ cmatch' = (cmatch \/ \E i \in 1..Len(ref.lines) : IsAwaited(ref.lines[i]))
     /\ cev' = ClientEvent("data", c, ref.lines, IF found THEN 1 ELSE 0)
     /\ IF found
          THEN /\ timer' = IF timer = "armed" THEN "cleared" ELSE timer
               /\ printed' = printed + 1
               /\ swarmState' = IF swarmState = "joined" THEN "destroying"
                                ELSE swarmState
          ELSE UNCHANGED <<timer, printed, swarmState>>
     /\ UNCHANGED <<clientPc, clientExit, done, cconn, cwritten, clientRest>>

\* socket.on('close'): nothing is done.
ClientClose(c) ==
  /\ clientPc = "waiting"
  /\ cconn[c] = "open"
  /\ cconn' = [cconn EXCEPT ![c] = "closed"]
  /\ cev' = ClientEvent("close", c, <<>>, 0)
  /\ UNCHANGED <<clientPc, clientExit, timer, done, swarmState, cbuf, cwritten,
                 printed, ctok, ctail, cmatch, clientRest>>

\* The timer fires: swarm.destroy() is called and not awaited, done is
\* rejected, main() rejects, and main().catch prints and calls
\* process.exit(1) before any I/O of the destroy can take place.
Timeout ==
  /\ clientPc = "waiting"
  /\ timer = "armed"
  /\ timer' = "fired"
  /\ swarmState' = IF swarmState = "joined" THEN "destroying" ELSE swarmState
  /\ done' = "rejected"
  /\ clientPc' = "exited"
  /\ clientExit' = "1"
  /\ cev' = ClientEvent("timeout", 0, <<>>, 0)
  /\ UNCHANGED <<cconn, cbuf, cwritten, printed, ctok, ctail, cmatch,
                 clientRest>>

\* The destroy() started by the 'data' handler settles: .then and .catch
\* both resolve done, main() returns and the process ends with code 0.
ClientDestroySettles(ok) ==
  /\ clientPc = "waiting"
  /\ swarmState = "destroying"
  /\ swarmState' = IF ok THEN "destroyed" ELSE "destroyFailed"
  /\ done' = "resolved"
  /\ clientPc' = "exited"
  /\ clientExit' = "0"
  /\ cconn' = [c \in Conns |-> IF cconn[c] = "open" THEN "closed" ELSE cconn[c]]
  /\ cev' = ClientEvent("destroyed", 0, <<>>, 0)
  /\ UNCHANGED <<timer, cbuf, cwritten, printed, ctok, ctail, cmatch,
                 clientRest>>

ClientNext ==
  \/ ClientStart
  \/ \E c \in Conns : ClientConnect(c)
  \/ \E c \in Conns :
       \E chunk \in ClientChunks(MaxClientTokens - ctok, ctail[c] # <<>>) :
         ClientData(c, chunk)
  \/ \E c \in Conns : ClientClose(c)
  \/ Timeout
  \/ \E ok \in BOOLEAN : ClientDestroySettles(ok)

ClientSpec == ClientInit /\ [][ClientNext]_allVars

\* The timer of the event loop fires when it is due, and a destroy() that
\* was started settles.
ClientFairSpec ==
  /\ ClientSpec
  /\ WF_allVars(ClientStart)
  /\ WF_allVars(Timeout)
  /\ WF_allVars(\E ok \in BOOLEAN : ClientDestroySettles(ok))

Requests(c) == SelectSeq(cwritten[c], IsRequest)

\* C15: in one run the client writes its request once, on the first
\* connection established; a later connection is sent no request.
C15_OneRequestOnFirstConnection ==
  /\ \A c \in Conns : Len(Requests(c)) <= 1
  /\ \A c \in Conns, d \in Conns :
       (Requests(c) # <<>> /\ Requests(d) # <<>>) => c = d

\* C16: the client prints a response, resolves and exits with code 0 only
\* after a complete line holding an inference_response with its own
\* request_id; an event whose lines hold none of it prints nothing, clears
\* no timer and leaves the wait pending.
C16_OnlyMatchingResponseEndsWait ==
  /\ (printed > 0 \/ done = "resolved" \/ clientExit = "0"
        \/ timer = "cleared") => cmatch
  /\ (cev.kind = "data" /\ \A i \in 1..Len(cev.lines) : ~IsAwaited(cev.lines[i]))
       => cev.shown = 0

C16_Witness ==
  /\ cev.kind = "data"
  /\ \E i \in 1..Len(cev.lines) : cev.lines[i] = <<RespOtherText>>
  /\ \E i \in 1..Len(cev.lines) : cev.lines[i] = <<HelloText>>
  /\ ~cmatch
  /\ done = "pending"
  /\ clientPc = "waiting"

\* C17: when the client has exited, with success or with failure, the
\* release of its topic had completed.
C17_ReleasedBeforeExit ==
  clientPc = "exited" => swarmState = "destroyed"

\* C18: the client terminates in every run, with code 0 only after it
\* printed the awaited response and with code 1 after the timeout.
C18_AlwaysTerminates ==
  /\ <>(clientPc = "exited")
  /\ [](clientPc = "exited" =>
          \/ clientExit = "0" /\ printed > 0
          \/ clientExit = "1" /\ timer = "fired")

C18_Witness ==
  clientPc = "exited" /\ clientExit = "1" /\ timer = "fired" /\ ~cmatch
    /\ \E c \in Conns : cconn[c] = "open" /\ cwritten[c] # <<>>

\* C19: the first message the client writes on a connection is a
\* peer_hello, and it writes one peer_hello per connection.
C19_ClientHelloFirst ==
  \A c \in Conns :
    cconn[c] # "idle" =>
      /\ cwritten[c] # <<>>
      /\ cwritten[c][1].type = "peer_hello"

\* C36: a run reports one outcome at most: the client prints at most one
\* response, however many peers answer, and never prints a response in a run
\* whose timer fired.
C36_OneOutcome ==
  /\ printed <= 1
  /\ ~(printed > 0 /\ timer = "fired")

\* ===================================================================
\* The peer registry with its time stamps
\* ===================================================================
MaxClock == 2      \* ticks of the clock during one run

\* The handshakes a peer may announce: with and without a name, with
\* clusters that are no array, and with arrays holding blanks, padded
\* names, a name twice, and the cluster the transport hinted at.
Hello(name, isArray, clusters) ==
  [type |-> "peer_hello", node_name |-> name, clusters_is_array |-> isArray,
   clusters |-> clusters]

HelloMsgs ==
  { Hello("alice", TRUE, << <<"cC">>, <<>>, <<"cA">> >>),
    Hello(Null, TRUE, << <<" ", "cA", " ">>, <<"cA">> >>),
    Hello("", TRUE, << <<" ">>, <<"cB">> >>),
    Hello("alice", TRUE, <<>>),
    Hello("alice", FALSE, <<>>),
    Hello(Null, FALSE, <<>>) }

NoRecord ==
  [peer_id |-> "?", node_name |-> "unknown", clusters |-> <<>>,
   connected_at |-> 0, last_seen_at |-> 0]

\* The record of one event of the registry: the socket, the handshake
\* processed, whether the peer had a record and which, and the time.
RegistryEvent(kind, c, msg, had, before, at) ==
  [kind |-> kind, conn |-> c, msg |-> msg, had |-> had, before |-> before,
   at |-> at]

\* The record setupConnection stores for an accepted connection.
acceptRecord(info, t) ==
  [peer_id |-> peerIdOf(info), node_name |-> "unknown",
   clusters |-> extractPeerClusters(info),
   connected_at |-> t, last_seen_at |-> t]

\* The record the peer_hello branch stores: current spread, then the
\* announced fields and the time.
helloRecord(m, peerId, msg, t) ==
  LET current == IF peerId \in DOMAIN m THEN m[peerId]
                 ELSE [peer_id |-> peerId, node_name |-> "unknown",
                       clusters |-> <<>>, connected_at |-> t]
  IN [peer_id |-> current.peer_id,
      node_name |-> announcedName(msg, current),
      clusters |-> Dedup(announcedClusters(msg, current)),
      connected_at |-> current.connected_at,
      last_seen_at |-> t]

RegistryInit ==
  /\ now = 0
  /\ connState = [c \in Conns |-> "idle"]
  /\ connPeer = [c \in Conns |-> "?"]
  /\ peers = <<>>
  /\ peersFile = <<>>
  /\ ev = RegistryEvent("init", 0, NoMsg, FALSE, NoRecord, 0)
  /\ backend = "auto"
  /\ supported = <<>>
  /\ buf = [c \in Conns |-> <<>>]
  /\ unread = [c \in Conns |-> <<>>]
  /\ pending = [c \in Conns |-> <<>>]
  /\ ntok = 0
  /\ tail = [c \in Conns |-> <<>>]
  /\ MainIdle
  /\ ResolveIdle
  /\ TopicIdle
  /\ ClientIdle
  /\ CliIdle
  /\ TierIdle
  /\ ModelIdle
  /\ KeyIdle

registryRest == <<backend, supported, buf, unread, pending, ntok, tail,
                  mainVars, resolveVars, topicVars, clientVars, cliVars,
                  tierVars, modelVars, keyVars>>

\* Time passes.
Tick ==
  /\ now < MaxClock
  /\ now' = now + 1
  /\ UNCHANGED <<connState, connPeer, peers, peersFile, ev, registryRest>>

\* swarm.on('connection'): the record is stored and the file written.
RegistryAccept(c, info) ==
  /\ connState[c] = "idle"
  /\ \A d \in Conns : d < c => connState[d] # "idle"
  /\ connState' = [connState EXCEPT ![c] = "open"]
  /\ connPeer' = [connPeer EXCEPT ![c] = peerIdOf(info)]
  /\ peers' = MapSet(peers, peerIdOf(info), acceptRecord(info, now))
  /\ peersFile' = writePeersFile(peers')
  /\ ev' = RegistryEvent("connect", c, NoMsg, FALSE, NoRecord, now)
  /\ UNCHANGED <<now, registryRest>>

\* socket.on('data') with one peer_hello line.
RegistryHello(c, msg) ==
  LET peerId == connPeer[c]
      had == peerId \in DOMAIN peers
  IN /\ connState[c] = "open"
     /\ peers' = MapSet(peers, peerId, helloRecord(peers, peerId, msg, now))
     /\ peersFile' = writePeersFile(peers')
     /\ ev' = RegistryEvent("hello", c, msg, had,
                            IF had THEN peers[peerId] ELSE NoRecord, now)
     /\ UNCHANGED <<now, connState, connPeer, registryRest>>

\* socket.on('close').
RegistryClose(c) ==
  /\ connState[c] = "open"
  /\ connState' = [connState EXCEPT ![c] = "closed"]
  /\ peers' = MapDelete(peers, connPeer[c])
  /\ peersFile' = writePeersFile(peers')
  /\ ev' = RegistryEvent("close", c, NoMsg, FALSE, NoRecord, now)
  /\ UNCHANGED <<now, connPeer, registryRest>>

RegistryNext ==
  \/ Tick
  \/ \E c \in Conns, info \in Infos : RegistryAccept(c, info)
  \/ \E c \in Conns, msg \in HelloMsgs : RegistryHello(c, msg)
  \/ \E c \in Conns : RegistryClose(c)

RegistrySpec == RegistryInit /\ [][RegistryNext]_allVars

\* The cluster names a handshake announces: what its texts hold beside
\* blanks.
Range(q) == { q[i] : i \in DOMAIN q }

AnnouncedNames(msg) ==
  UNION { Range(msg.clusters[i]) : i \in DOMAIN msg.clusters } \ {" "}

\* C20: after a peer_hello was processed on a connection whose peer had a
\* record, the record is the old one with the announced name in place of
\* the old name, the announced cluster set in place of the seeded clusters,
\* and last_seen_at set to the time of the handshake; what the handshake
\* does not announce is kept.
C20_HelloMerged ==
  (ev.kind = "hello" /\ ev.had) =>
    LET p == connPeer[ev.conn]
        after == peers[p]
    IN /\ p \in DOMAIN peers
       /\ after.peer_id = ev.before.peer_id
       /\ after.connected_at = ev.before.connected_at
       /\ after.last_seen_at = ev.at
       /\ after.last_seen_at >= ev.before.last_seen_at
       /\ after.node_name = IF ev.msg.node_name \in {Null, ""}
                              THEN ev.before.node_name
                            ELSE ev.msg.node_name
       /\ IF ev.msg.clusters_is_array
            THEN Range(after.clusters) = AnnouncedNames(ev.msg)
          ELSE after.clusters = ev.before.clusters
       /\ Cardinality(Range(after.clusters)) = Len(after.clusters)
       /\ peersFile = peers

C20_Witness ==
  /\ ev.kind = "hello"
  /\ ev.had
  /\ ev.before.clusters = <<"cB">>
  /\ ev.before.node_name = "unknown"
  /\ ev.msg.clusters_is_array
  /\ ev.msg.node_name = "alice"
  /\ peers[connPeer[ev.conn]].clusters = <<"cC", "cA">>
  /\ peers[connPeer[ev.conn]].node_name = "alice"
  /\ peers[connPeer[ev.conn]].last_seen_at > ev.before.last_seen_at

MaxCmds == 3       \* commands started during one run

\* The identifier cmdStart falls back to.
StartDefault == "gatewayai-poc"

\* readJson: the parsed document, or def when readFileSync or JSON.parse
\* throws (no file, no bytes, no JSON).
readJson(file, def) ==
  IF file.kind = "json"
    THEN [has_clusters |-> file.has_clusters, clusters |-> file.clusters,
          nodePid |-> file.nodePid]
  ELSE def

getState(file) == readJson(file, DefaultState)

\* { ...s, ...update }
spread(s, update) ==
  [has_clusters |-> "clusters" \in update.fields \/ s.has_clusters,
   clusters |-> IF "clusters" \in update.fields THEN update.clusters
                ELSE s.clusters,
   nodePid |-> IF "nodePid" \in update.fields THEN update.nodePid
               ELSE s.nodePid]

\* A membership test that never finds the identifier.
isMember_Never(list, id) == FALSE

\* state.clusters.some(c => c.id === id)
isMember(list, id) == \E i \in 1..Len(list) : list[i] = id

\* state.clusters.filter(c => c.id !== id)
without(list, id) == SelectSeq(list, LAMBDA c : c # id)

\* What a command printed of the state: the Node line and the clusters.
NoOut == [node |-> "", clusters |-> <<>>]

\* The record of one step: the process, the identifier it was called with,
\* the content of state.json when the step began, whether that content
\* recorded the pid of a daemon that runs, whether the step ended with a
\* TypeError nobody catches, what it printed, and the CLUSTER_IDS of the
\* daemon it spawned.
CliEvent(kind, p, arg) ==
  [kind |-> kind, proc |-> p, arg |-> arg, saw |-> stateFile,
   live |-> stateFile.kind = "json" /\ stateFile.nodePid \in running,
   threw |-> FALSE, out |-> NoOut, joins |-> <<>>]

\* The step of a command that reads state.json: state.clusters is read of
\* every state, and reading a property of undefined throws.
CommandEvent(kind, p, arg, out) ==
  IF getState(stateFile).has_clusters
    THEN [CliEvent(kind, p, arg) EXCEPT !.out = out]
  ELSE [CliEvent(kind, p, arg) EXCEPT !.threw = TRUE]

\* The command calls setState(update); then names what follows the call.
callSetState(cmd, arg, update, then, child, env) ==
  [pc |-> "setState", cmd |-> cmd, arg |-> arg, update |-> update,
   s |-> IdleProc.s, then |-> then, child |-> child, env |-> env]

\* A connect of id has completed.
Connected(id) ==
  IF effects[id] = "void" THEN effects
  ELSE [effects EXCEPT ![id] = "connected"]

CliInit ==
  /\ stateFile \in {FileAbsent, FileGarbage, FileNoClusters}
  /\ proc = [p \in Procs |-> IdleProc]
  /\ running = {}
  /\ spawned = 0
  /\ ncmds = 0
  /\ effects = [id \in ClusterArgs |-> "none"]
  /\ cliEv = [kind |-> "none"]
  /\ CliOthersIdle

\* A command starts in the process p: its first statement runs.
Starts(p) ==
  /\ proc[p].pc = "idle"
  /\ \A q \in Procs : q < p => proc[q].pc # "idle"
  /\ ncmds < MaxCmds
  /\ ncmds' = ncmds + 1

\* process.kill(pid, 0) does not throw.
nodeRunning(state) == state.nodePid # 0 /\ state.nodePid \in running

\* cmdStatus.  config.json is not there.
CmdStatus(p) ==
  LET state == getState(stateFile)
  IN /\ Starts(p)
     /\ cliEv' = CommandEvent("status", p, "",
                   [node |-> IF nodeRunning(state) THEN "running"
                             ELSE "not running",
                    clusters |-> state.clusters])
     /\ UNCHANGED <<stateFile, proc, running, spawned, effects, cliRest>>

\* cmdClusters.
CmdClusters(p) ==
  LET state == getState(stateFile)
  IN /\ Starts(p)
     /\ cliEv' = CommandEvent("clusters", p, "",
                   [node |-> "", clusters |-> state.clusters])
     /\ UNCHANGED <<stateFile, proc, running, spawned, effects, cliRest>>

\* cmdConnect up to its return or its call of setState.
CmdConnect(p, id) ==
  LET state == getState(stateFile)
      returns == ~state.has_clusters \/ isMember(state.clusters, id)
  IN /\ Starts(p)
     /\ proc' = [proc EXCEPT ![p] =
          IF returns THEN IdleProc
          ELSE callSetState("connect", id,
                 [fields |-> {"clusters"},
                  clusters |-> Append(state.clusters, id),
                  nodePid |-> 0], "exit", 0, "")]
     /\ effects' = IF state.has_clusters /\ returns THEN Connected(id)
                   ELSE effects
     /\ cliEv' = CommandEvent("connect", p, id, NoOut)
     /\ UNCHANGED <<stateFile, running, spawned, cliRest>>

\* cmdDisconnect up to its return or its call of setState.
CmdDisconnect(p, id) ==
  LET state == getState(stateFile)
      next == without(state.clusters, id)
  IN /\ Starts(p)
     /\ proc' = [proc EXCEPT ![p] =
          IF ~state.has_clusters \/ Len(next) = Len(state.clusters)
            THEN IdleProc
          ELSE callSetState("disconnect", id,
                 [fields |-> {"clusters"}, clusters |-> next, nodePid |-> 0],
                 "exit", 0, "")]
     /\ effects' = [effects EXCEPT ![id] = "void"]
     /\ cliEv' = CommandEvent("disconnect", p, id, NoOut)
     /\ UNCHANGED <<stateFile, running, spawned, cliRest>>

\* cmdStart up to its return, its first setState or the spawn.  node-run.sh
\* is installed and config.json names no cluster_id; env is the
\* POC_CLUSTER_ID the daemon will be spawned with.
CmdStart(p) ==
  LET state == getState(stateFile)
      startId == IF state.clusters # <<>> THEN state.clusters[1]
                 ELSE StartDefault
  IN /\ Starts(p)
     /\ proc' = [proc EXCEPT ![p] =
          IF nodeRunning(state) \/ ~state.has_clusters THEN IdleProc
          ELSE IF ~isMember(state.clusters, startId)
            THEN callSetState("start", "",
                   [fields |-> {"clusters"},
                    clusters |-> Append(state.clusters, startId),
                    nodePid |-> 0], "spawn", 0, startId)
          ELSE [IdleProc EXCEPT !.pc = "spawn", !.cmd = "start",
                                !.env = startId]]
     /\ cliEv' = IF nodeRunning(state) THEN CliEvent("start", p, "")
                 ELSE CommandEvent("start", p, "", NoOut)
     /\ UNCHANGED <<stateFile, running, spawned, effects, cliRest>>

\* setState: const s = getState().
SetStateReads(p) ==
  /\ proc[p].pc = "setState"
  /\ proc' = [proc EXCEPT ![p].s = getState(stateFile), ![p].pc = "open"]
  /\ cliEv' = CliEvent("getState", p, "")
  /\ UNCHANGED <<stateFile, running, spawned, ncmds, effects, cliRest>>

\* writeJson: writeFileSync opens state.json for writing, which empties it.
WriteOpens(p) ==
  /\ proc[p].pc = "open"
  /\ stateFile' = FileEmpty
  /\ proc' = [proc EXCEPT ![p].pc = "write"]
  /\ cliEv' = CliEvent("open", p, "")
  /\ UNCHANGED <<running, spawned, ncmds, effects, cliRest>>

\* writeJson: writeFileSync writes the document; the command goes on.
WriteWrites(p) ==
  /\ proc[p].pc = "write"
  /\ stateFile' = FileJson(spread(proc[p].s, proc[p].update))
  /\ proc' = [proc EXCEPT ![p] =
       IF proc[p].then = "exit" THEN IdleProc
       ELSE [IdleProc EXCEPT !.pc = proc[p].then, !.cmd = proc[p].cmd,
                             !.child = proc[p].child, !.env = proc[p].env]]
  /\ effects' = IF proc[p].cmd = "connect" THEN Connected(proc[p].arg)
                ELSE effects
  /\ cliEv' = CliEvent("write", p, proc[p].arg)
  /\ UNCHANGED <<running, spawned, ncmds, cliRest>>

\* state.json as the daemon's resolveClusterIds reads it.
stateForDaemon(file) ==
  IF file.kind # "json" THEN Throws
  ELSE [kind |-> "object", has_clusters |-> file.has_clusters,
        clusters |-> [i \in 1..Len(file.clusters) |->
                        [id |-> <<file.clusters[i]>>]]]

\* The CLUSTER_IDS of the daemon node-run.sh starts: POC_CLUSTER_ID is set
\* by cmdStart, POC_CLUSTER_IDS and config.json are not there.
daemonClusterIds(env, file) ==
  resolveClusterIds([list |-> <<>>, single |-> <<env>>, config |-> Throws,
                     state |-> stateForDaemon(file)])

\* cmdStart: spawn(runScript), then setState({ nodePid: child.pid }).
Spawns(p) ==
  LET pid == spawned + 1
  IN /\ proc[p].pc = "spawn"
     /\ running' = running \cup {pid}
     /\ spawned' = pid
     /\ proc' = [proc EXCEPT ![p] =
          callSetState("start", "",
            [fields |-> {"nodePid"}, clusters |-> <<>>, nodePid |-> pid],
            "watching", pid, "")]
     /\ cliEv' = [CliEvent("spawn", p, "") EXCEPT
                    !.joins = daemonClusterIds(proc[p].env, stateFile)]
     /\ UNCHANGED <<stateFile, ncmds, effects, cliRest>>

\* A daemon ends.
DaemonExits(pid) ==
  /\ pid \in running
  /\ running' = running \ {pid}
  /\ cliEv' = CliEvent("daemon exits", 0, "")
  /\ UNCHANGED <<stateFile, proc, spawned, ncmds, effects, cliRest>>

\* child.on('exit'): setState({ nodePid: null }).
ChildExit(p) ==
  /\ proc[p].pc = "watching"
  /\ proc[p].child \notin running
  /\ proc' = [proc EXCEPT ![p] =
       callSetState("start", "",
         [fields |-> {"nodePid"}, clusters |-> <<>>, nodePid |-> 0],
         "exit", 0, "")]
  /\ cliEv' = CliEvent("exit", p, "")
  /\ UNCHANGED <<stateFile, running, spawned, ncmds, effects, cliRest>>

CliNext ==
  \/ \E p \in Procs : CmdStatus(p)
  \/ \E p \in Procs : CmdClusters(p)
  \/ \E p \in Procs, id \in ClusterArgs : CmdConnect(p, id)
  \/ \E p \in Procs, id \in ClusterArgs : CmdDisconnect(p, id)
  \/ \E p \in Procs : CmdStart(p)
  \/ \E p \in Procs : SetStateReads(p)
  \/ \E p \in Procs : WriteOpens(p)
  \/ \E p \in Procs : WriteWrites(p)
  \/ \E p \in Procs : Spawns(p)
  \/ \E pid \in running : DaemonExits(pid)
  \/ \E p \in Procs : ChildExit(p)

CliSpec == CliInit /\ [][CliNext]_allVars

\* The steps that read state.json.
ReadSteps ==
  {"status", "clusters", "connect", "disconnect", "start", "getState"}

\* C22: a process that reads state.json while another writes it finds the
\* whole old document or the whole new one, never a file without content.
C22_ReadsSeeWholeContent ==
  cliEv.kind \in ReadSteps => cliEv.saw.kind # "empty"

\* C23: cmdStart spawns no daemon while state.json records the pid of a
\* daemon that runs.
C23_NoSecondDaemon ==
  cliEv.kind = "spawn" => ~cliEv.live

\* C24: a connect with an identifier the membership it read holds returns
\* and leaves state.json as it was, and the membership in state.json never
\* holds an identifier twice.
C24_NoDuplicateMembership ==
  /\ stateFile.kind = "json" =>
       \A i, j \in 1..Len(stateFile.clusters) :
         i # j => stateFile.clusters[i] # stateFile.clusters[j]
  /\ ( /\ cliEv.kind = "connect"
       /\ \E i \in 1..Len(getState(cliEv.saw).clusters) :
            getState(cliEv.saw).clusters[i] = cliEv.arg )
     => stateFile = cliEv.saw /\ proc[cliEv.proc] = IdleProc

C24_Witness ==
  /\ cliEv.kind = "connect"
  /\ cliEv.arg = "cA"
  /\ stateFile.kind = "json"
  /\ stateFile.clusters = <<"cA", "cB">>
  /\ proc[cliEv.proc] = IdleProc

\* A state.json that holds no state: no file, no bytes, no JSON, or a
\* JSON document without a clusters array.
Corrupted(file) == file.kind # "json" \/ ~file.has_clusters

\* C31: on a state.json that holds no state, status, clusters, connect and
\* disconnect end without an uncaught error and act as on an empty
\* membership with no daemon recorded: status prints "not running" and no
\* cluster, clusters prints none, connect goes on to store the identifier
\* alone, disconnect returns.
C31_CorruptStateIsNoState ==
  ( /\ cliEv.kind \in {"status", "clusters", "connect", "disconnect"}
    /\ Corrupted(cliEv.saw) ) =>
    /\ ~cliEv.threw
    /\ cliEv.kind = "status" =>
         cliEv.out = [node |-> "not running", clusters |-> <<>>]
    /\ cliEv.kind = "clusters" => cliEv.out.clusters = <<>>
    /\ cliEv.kind = "connect" =>
         /\ proc[cliEv.proc].pc = "setState"
         /\ proc[cliEv.proc].update.clusters = <<cliEv.arg>>
    /\ cliEv.kind = "disconnect" => proc[cliEv.proc] = IdleProc

\* No command is between its first and its last statement.
Quiet == \A p \in Procs : proc[p].pc \in {"idle", "watching"}

\* C37: once the commands that ran have completed, state.json holds every
\* identifier a completed connect stored (none was disconnected), and the
\* pid of the one daemon that was spawned and runs.
C37_NoLostUpdate ==
  Quiet =>
    /\ \A id \in ClusterArgs :
         effects[id] = "connected" =>
           stateFile.kind = "json" /\ isMember(stateFile.clusters, id)
    /\ \A p \in Procs :
         (proc[p].pc = "watching" /\ proc[p].child \in running
            /\ spawned = 1) =>
           stateFile.nodePid = proc[p].child

\* C38: after a connect of each of two identifiers has completed and
\* state.json holds both, the daemon cmdStart spawns joins the topics of
\* both.
C38_DaemonJoinsMembership ==
  ( /\ cliEv.kind = "spawn"
    /\ cliEv.saw.kind = "json"
    /\ \A id \in ClusterArgs :
         effects[id] = "connected" /\ isMember(cliEv.saw.clusters, id) ) =>
    \A id \in ClusterArgs : <<id>> \in Range(cliEv.joins)

\* ===================================================================
\* The resource profile and the tiers it is eligible for
\* ===================================================================
Tier(id, cpu, ram, gpu, disk) ==
  [id |-> id, cpu |-> cpu, ram |-> ram, gpu |-> gpu, disk |-> disk]

TIERS ==
  << Tier("SmolLM-360M", 1, 1, 0, 2),
     Tier("Qwen2-0.5B", 1, 2, 0, 3),
     Tier("SmolLM-1.7B", 1, 4, 0, 5),
     Tier("TinyLlama-1.1B", 2, 1, 0, 2),
     Tier("Phi-2-2.7B", 2, 2, 0, 3),
     Tier("Llama-3.2-1.5B", 2, 4, 0, 5),
     Tier("Llama-3.2-3B", 4, 8, 0, 20),
     Tier("Llama-3.1-8B", 4, 12, 8, 30),
     Tier("Llama-3.1-70B", 8, 32, 24, 150),
     Tier("Llama-3.1-405B", 16, 64, 48, 500) >>

\* What the four probes of cmdGauge may find; 0 is what a probe that throws
\* or finds nothing leaves.
CpuProbes == {0, 4}
RamProbes == {0, 8, 12}
GpuProbes == {0, 8}
DiskProbes == {0, 2, 25, 30}

\* n || 1
orOne(n) == IF n # 0 THEN n ELSE 1

\* The profile cmdGauge writes to resources.json.
gaugedProfile(cpu, ram, gpu, disk) ==
  [gauged |-> TRUE, cpu_cores |-> orOne(cpu), ram_gb |-> orOne(ram),
   gpu_vram_gb |-> gpu, disk_gb |-> orOne(disk)]

\* A filter that asks for the accelerator memory of no tier.
meets_NoAccelerator(r, t) ==
  ~(r.cpu_cores < t.cpu \/ r.ram_gb < t.ram \/ r.disk_gb < t.disk)

\* A filter that asks for exactly the cores of the tier.
meets_ExactCores(r, t) ==
  /\ ~(r.cpu_cores # t.cpu \/ r.ram_gb < t.ram \/ r.disk_gb < t.disk)
  /\ ~(t.gpu > 0 /\ r.gpu_vram_gb < t.gpu)

\* The filter of cmdEligible: whether it keeps the tier t.
meets(r, t) ==
  /\ ~(r.cpu_cores < t.cpu \/ r.ram_gb < t.ram \/ r.disk_gb < t.disk)
  /\ ~(t.gpu > 0 /\ r.gpu_vram_gb < t.gpu)

\* catalog.filter(...)
eligibleTiers(catalog, r) == SelectSeq(catalog, LAMBDA t : meets(r, t))

\* cmdEligible: the ids it prints, or what it says instead.
Listing(r) ==
  IF ~r.gauged
    THEN [done |-> TRUE, profile |-> r, ids |-> <<>>, said |-> "not gauged"]
  ELSE LET eligibleList == eligibleTiers(TIERS, r)
       IN [done |-> TRUE, profile |-> r,
           ids |-> [i \in 1..Len(eligibleList) |-> eligibleList[i].id],
           said |-> IF Len(eligibleList) = 0 THEN "none eligible" ELSE "ids"]

TierInit ==
  /\ resources = NotGauged
  /\ eligible = NoListing
  /\ earlier = NoListing
  /\ TierOthersIdle

\* cmdGauge on Linux: the probes, then writeJson(RESOURCES_PATH, profile).
CmdGauge(cpu, ram, gpu, disk) ==
  /\ resources' = gaugedProfile(cpu, ram, gpu, disk)
  /\ UNCHANGED <<eligible, earlier, tierRest>>

\* cmdEligible.
CmdEligible ==
  /\ eligible' = Listing(resources)
  /\ earlier' = eligible
  /\ UNCHANGED <<resources, tierRest>>

TierNext ==
  \/ \E cpu \in CpuProbes, ram \in RamProbes, gpu \in GpuProbes,
        disk \in DiskProbes : CmdGauge(cpu, ram, gpu, disk)
  \/ CmdEligible

TierSpec == TierInit /\ [][TierNext]_allVars

\* The ids of a listing.
Listed(l) == { l.ids[i] : i \in 1..Len(l.ids) }

\* The profile and the two tiers of the example: SmolLM-360M is
\* {1, 1, disk 2} and Llama-3.2-3B is {4, 8, disk 20, gpu 0}.
ExampleProfile == gaugedProfile(4, 8, 0, 25)

\* C25: for a gauged profile cmdEligible lists a tier if and only if the
\* cores, the memory and the disk reach the tier's minimums and, when the
\* tier's gpu minimum is above zero, the gpu memory reaches it; when no
\* tier matches it lists nothing and says so; the example profile is listed
\* for both tiers of the example.
C25_EligibleIffMinimumsMet ==
  (eligible.done /\ eligible.profile.gauged) =>
    LET r == eligible.profile
    IN /\ \A i \in 1..Len(TIERS) :
            TIERS[i].id \in Listed(eligible) <=>
              /\ r.cpu_cores >= TIERS[i].cpu
              /\ r.ram_gb >= TIERS[i].ram
              /\ r.disk_gb >= TIERS[i].disk
              /\ TIERS[i].gpu > 0 => r.gpu_vram_gb >= TIERS[i].gpu
       /\ eligible.said \in {"ids", "none eligible"}
       /\ eligible.said = "none eligible" <=> eligible.ids = <<>>
       /\ r = ExampleProfile =>
            /\ {"SmolLM-360M", "Llama-3.2-3B"} \subseteq Listed(eligible)
            /\ eligibleTiers(<<TIERS[1], TIERS[7]>>, r)
                 = <<TIERS[1], TIERS[7]>>

C25_Witness ==
  /\ eligible.done
  /\ eligible.profile = gaugedProfile(4, 12, 0, 30)
  /\ "Llama-3.2-3B" \in Listed(eligible)
  /\ "Llama-3.1-8B" \notin Listed(eligible)

\* p is less than or equal to q in every component.
AtMost(p, q) ==
  /\ p.cpu_cores <= q.cpu_cores
  /\ p.ram_gb <= q.ram_gb
  /\ p.gpu_vram_gb <= q.gpu_vram_gb
  /\ p.disk_gb <= q.disk_gb

\* C26: of two gauged profiles listed one after the other, the first at
\* most the second in every component or the other way round, the smaller
\* one is listed for no tier the larger one is not listed for.
C26_Monotonic ==
  ( /\ eligible.done /\ eligible.profile.gauged
    /\ earlier.done /\ earlier.profile.gauged ) =>
    /\ AtMost(earlier.profile, eligible.profile) =>
         Listed(earlier) \subseteq Listed(eligible)
    /\ AtMost(eligible.profile, earlier.profile) =>
         Listed(eligible) \subseteq Listed(earlier)

C26_Witness ==
  /\ eligible.done
  /\ earlier.done
  /\ earlier.profile = gaugedProfile(4, 8, 0, 25)
  /\ eligible.profile = gaugedProfile(4, 12, 8, 30)
  /\ Listed(earlier) # {}
  /\ Listed(earlier) \subseteq Listed(eligible)
  /\ Listed(earlier) # Listed(eligible)

\* C27: the profile cmdGauge writes when every probe fails is listed for
\* at least the smallest tier.
C27_FallbackEligible ==
  (eligible.done /\ eligible.profile = gaugedProfile(0, 0, 0, 0)) =>
    /\ eligible.profile.disk_gb = 1
    /\ TIERS[1].id \in Listed(eligible)

\* ===================================================================
\* The model inferPrompt chooses
\* ===================================================================
\* msg.model: no field, the empty text, models of the tiers, the default
\* model and a model no list names.
Requested ==
  {Null, "", "SmolLM-360M", "Qwen2-0.5B", OLLAMA_MODEL, "gpt-x"}

\* POC_SUPPORTED_MODELS after split, trim and filter.
SupportedChoices ==
  { <<>>, <<"SmolLM-360M">>, <<"Qwen2-0.5B">>,
    <<"SmolLM-360M", "Qwen2-0.5B">>, <<"Qwen2-0.5B", "SmolLM-360M">>,
    <<OLLAMA_MODEL>>, <<"Qwen2-0.5B", OLLAMA_MODEL>>, <<"gpt-x">>,
    <<"gpt-x", "Qwen2-0.5B">>, <<"Qwen2-0.5B", "Qwen2-0.5B">> }

ModelInit ==
  /\ requested \in Requested
  /\ supportedModels \in SupportedChoices
  /\ selection = NoSelection
  /\ ModelOthersIdle

\* inferPrompt(prompt, msg.model) up to the choice of the model.
ChooseModel ==
  /\ ~selection.done
  /\ selection' =
       [done |-> TRUE,
        selected |-> selectedModel(requested, supportedModels),
        chosenModel |-> chosenModel(requested, supportedModels)]
  /\ UNCHANGED <<requested, supportedModels, modelRest>>

ModelNext == ChooseModel

ModelSpec == ModelInit /\ [][ModelNext]_allVars

\* The name the remote service knows a model by.
RuntimeName(m) ==
  IF MODEL_RUNTIME_MAP(m) # "" THEN MODEL_RUNTIME_MAP(m) ELSE m

NoneRequested == requested \in {Null, ""}
InSupported == \E i \in 1..Len(supportedModels) : supportedModels[i] = requested

KeyInit ==
  /\ clusterId \in ClusterIdTexts
  /\ otherId \in ClusterIdTexts
  /\ daemonTopic = <<>>
  /\ otherTopic = <<>>
  /\ clientTopic = <<>>
  /\ KeyOthersIdle

\* The daemon joins the second identifier of CLUSTER_IDS.
OtherJoins ==
  /\ otherTopic = <<>>
  /\ otherTopic' = topicForCluster(otherId)
  /\ UNCHANGED <<otherId, clusterId, daemonTopic, keyRest>>

KeyNext == DaemonJoins \/ OtherJoins

KeySpec == KeyInit /\ [][KeyNext]_allVars

\* C29: the topic of every identifier is 32 bytes long, one identifier has
\* one topic, and two different identifiers have different topics.
C29_NoCollision ==
  (daemonTopic # <<>> /\ otherTopic # <<>>) =>
    /\ Len(daemonTopic) = TopicLen
    /\ Len(otherTopic) = TopicLen
    /\ clusterId = otherId => daemonTopic = otherTopic
    /\ clusterId # otherId => daemonTopic # otherTopic
====
